---------------------------- MODULE Spec2Model ----------------------------
(***************************************************************************)
(* Model of the multi-tenant point-of-sale backend: the request pipeline   *)
(* (authenticate -> authorize -> handler), the tenant-scoped handlers and  *)
(* the transaction engine (createTransaction) with its database            *)
(* transaction, run by concurrent request handlers over one database.      *)
(***************************************************************************)
EXTENDS Integers, Sequences, FiniteSets, TLC

(***************************************************************************)
(* Bounds of the model.                                                    *)
(***************************************************************************)
MaxRequests == 2

(***************************************************************************)
(* Optional values: an absent (undefined) body field is <<>>, a supplied   *)
(* number n is <<n>>; an absent string is "".                              *)
(***************************************************************************)
Undef == <<>>
Some(x) == <<x>>
NoId == ""

\* JavaScript `x || d` on an optional number: undefined and 0 are falsy.
OrElse(x, d) == IF x = Undef \/ x[1] = 0 THEN d ELSE x[1]

(***************************************************************************)
(* Identifiers.                                                            *)
(***************************************************************************)
Slots == {"h1", "h2"}
UserIds == {"oA", "mA", "cA", "oB", "cB", "e1", "e2", "e3"}
StoreIds == {"s1", "s2", "s3", "s4", "s5"}
CategoryIds == {"g1", "g2", "g3", "g4", "g5"}
ProductIds == {"p1", "p2", "p3", "p4", "p5"}
VariantIds == {"v1", "v2", "v3", "v4", "v5", "v6"}
Roles == {"OWNER", "MANAGER", "CASHIER"}

(***************************************************************************)
(* The rows present before the first request: tenant oA with a manager, a  *)
(* cashier, store s1, category g1, product p1 and variants v1, v2; tenant  *)
(* oB with a cashier, store s2, category g2, product p2 and variant v3.    *)
(***************************************************************************)
\* A seeded user's e-mail address is written like their id.
SeedUsers ==
  [u \in {"oA", "mA", "cA", "oB", "cB"} |->
     CASE u = "oA" -> [email |-> u, role |-> "OWNER", ownerId |-> NoId, storeId |-> NoId, isActive |-> TRUE]
       [] u = "mA" -> [email |-> u, role |-> "MANAGER", ownerId |-> "oA", storeId |-> "s1", isActive |-> TRUE]
       [] u = "cA" -> [email |-> u, role |-> "CASHIER", ownerId |-> "oA", storeId |-> "s1", isActive |-> TRUE]
       [] u = "oB" -> [email |-> u, role |-> "OWNER", ownerId |-> NoId, storeId |-> NoId, isActive |-> TRUE]
       [] u = "cB" -> [email |-> u, role |-> "CASHIER", ownerId |-> "oB", storeId |-> "s2", isActive |-> TRUE]]

SeedStores ==
  [s \in {"s1", "s2"} |-> [ownerId |-> IF s = "s1" THEN "oA" ELSE "oB", name |-> s]]

SeedCategories ==
  [g \in {"g1", "g2"} |-> [ownerId |-> IF g = "g1" THEN "oA" ELSE "oB", name |-> g]]

SeedProducts ==
  [p \in {"p1", "p2"} |->
     IF p = "p1"
       THEN [ownerId |-> "oA", storeId |-> "s1", categoryId |-> "g1", name |-> p]
       ELSE [ownerId |-> "oB", storeId |-> "s2", categoryId |-> "g2", name |-> p]]

SeedVariants(st1, st2) ==
  [v \in {"v1", "v2", "v3"} |->
     CASE v = "v1" -> [productId |-> "p1", sku |-> "k1", barcode |-> "b1",
                       sellingPrice |-> 10, stockQuantity |-> st1]
       [] v = "v2" -> [productId |-> "p1", sku |-> "k2", barcode |-> "b2",
                       sellingPrice |-> 4, stockQuantity |-> st2]
       [] v = "v3" -> [productId |-> "p2", sku |-> "k3", barcode |-> "b3",
                       sellingPrice |-> 7, stockQuantity |-> 5]]

(***************************************************************************)
(* State.  The five tables are functions from the ids of the rows present  *)
(* to the rows; transactions is the table of committed Transaction rows    *)
(* with their TransactionItem rows, in commit order (a row's id is its     *)
(* position).  Each slot is one concurrent request handler: pc is its      *)
(* position, rq the request, ctx what authenticate attached to it, loc its *)
(* local variables, txw the uncommitted writes and row locks of its        *)
(* database transaction, res the response sent.  nreq counts the requests  *)
(* received; stock0 remembers the stock the variants started with.         *)
(***************************************************************************)
VARIABLES users, stores, categories, products, variants, transactions,
          pc, rq, ctx, loc, txw, res, nreq, stock0

db == <<users, stores, categories, products, variants, transactions>>
vars == <<users, stores, categories, products, variants, transactions,
          pc, rq, ctx, loc, txw, res, nreq, stock0>>

Exists(table, id) == id \in DOMAIN table

\* prisma create: the table with one more row.
Insert(table, id, row) ==
  [x \in DOMAIN table \cup {id} |-> IF x = id THEN row ELSE table[x]]

\* prisma delete: the table without the row.
Remove(table, id) == [x \in DOMAIN table \ {id} |-> table[x]]

\* The id given to a new row: one not used before (ids are generated, unique).
FreshId(ids, table) == CHOOSE x \in ids \ DOMAIN table : TRUE

(***************************************************************************)
(* Credentials.  A bearer token carries the payload signed at login.       *)
(***************************************************************************)
\* A payload whose tenant is always the user's own id.
LoginPayloadOwnId(u, user) == [userId |-> u, role |-> user.role, ownerId |-> u]

\* login: the payload put in the token of the user with id u and row user;
\* ownerId is user.role === OWNER ? user.id : (user.ownerId || user.id).
LoginPayload(u, user) ==
  LET ownerId == IF user.role = "OWNER" THEN u
                 ELSE (IF user.ownerId # NoId THEN user.ownerId ELSE u)
  IN  [userId |-> u, role |-> user.role, ownerId |-> ownerId]

NoPayload == [userId |-> NoId, role |-> NoId, ownerId |-> NoId]

\* A valid token of seeded user u, issued at a login before the first request.
TokenOf(u) == [header |-> "bearer", sig |-> "good", expired |-> FALSE,
               payload |-> LoginPayload(u, SeedUsers[u])]

\* A verification that does not look at the expiry.
VerifyIgnoresExpiry(token) == token.sig # "good"

\* jwt.verify: the payload, or an exception (malformed, bad signature, expired).
VerifyThrows(token) == token.sig # "good" \/ token.expired

NoCtx == [user |-> NoPayload, ownerId |-> NoId]
NoLoc == [i |-> 1, items |-> <<>>, subtotal |-> 0, txNo |-> 0, newStock |-> 0]
NoTx == [open |-> FALSE, rows |-> <<>>, delta |-> [v \in VariantIds |-> 0], locked |-> {},
         undone |-> {}]
NoRes == [status |-> 0, data |-> {}, error |-> ""]
NoRq == [op |-> "none"]
NoQuery == [storeId |-> NoId]

\* A request: the route (op), the Authorization header (token), the path
\* parameters (id, txId), the query string, the body, and sentOwnerId, a
\* tenant id the caller sends along in the body, query or path.
Request(op, token, id, body) ==
  [op |-> op, token |-> token, id |-> id, txId |-> 0, query |-> NoQuery,
   sentOwnerId |-> NoId, body |-> body]

Reply(status, data, error) == [status |-> status, data |-> data, error |-> error]

\* Routes whose stock adjustment is open to every authenticated role.
AllowedRolesOpenStock(op) ==
  CASE op \in {"getAllTransactions", "getTransactionById", "getTransactionStats",
               "getTodayTransactions"} -> {"OWNER", "MANAGER"}
    [] op \in {"createVariant", "updateVariant", "deleteVariant"} -> {"OWNER", "MANAGER"}
    [] op \in {"createProduct", "updateProduct", "deleteProduct"} -> {"OWNER", "MANAGER"}
    [] op \in {"createCategory"} -> {"OWNER", "MANAGER"}
    [] op \in {"createStore", "updateStore", "deleteStore"} -> {"OWNER"}
    [] op \in {"createEmployee", "updateEmployee"} -> {"OWNER", "MANAGER"}
    [] op \in {"deleteEmployee"} -> {"OWNER"}
    [] OTHER -> {"OWNER", "MANAGER", "CASHIER"}

(***************************************************************************)
(* Routes: the roles the route's authorize(...) middleware lets through;   *)
(* a route without authorize lets every authenticated role through.        *)
(***************************************************************************)
AllowedRoles(op) ==
  CASE op \in {"getAllTransactions", "getTransactionById", "getTransactionStats",
               "getTodayTransactions"} -> {"OWNER", "MANAGER"}
    [] op \in {"createVariant", "updateVariant", "adjustStock", "deleteVariant"}
         -> {"OWNER", "MANAGER"}
    [] op \in {"createProduct", "updateProduct", "deleteProduct"} -> {"OWNER", "MANAGER"}
    [] op \in {"createCategory"} -> {"OWNER", "MANAGER"}
    [] op \in {"createStore", "updateStore", "deleteStore"} -> {"OWNER"}
    [] op \in {"createEmployee", "updateEmployee"} -> {"OWNER", "MANAGER"}
    [] op \in {"deleteEmployee"} -> {"OWNER"}
    [] OTHER -> Roles

\* Routes none of which has an authorize middleware.
HasAuthorizeNever(op) == FALSE

\* The route has an authorize(...) middleware after authenticate.
HasAuthorize(op) == AllowedRoles(op) # Roles

\* The first position of the handler of op.
Entry(op) ==
  CASE op = "createTransaction" -> "ct_fields"
    [] op = "adjustStock" -> "as_read"
    [] op = "updateVariant" -> "uv_read"
    [] op = "deleteStore" -> "ds_read"
    [] OTHER -> "handler"

\* Routes without the authenticate middleware.
PublicOps == {"register", "login"}

(***************************************************************************)
(* The request pipeline.                                                   *)
(***************************************************************************)
\* Handlers are taken into use in a fixed order (they are interchangeable).
SlotBefore(o, s) == o = "h1" /\ s = "h2"

\* A request arrives at an idle handler.
Receive(s, Q) ==
  /\ pc[s] = "idle"
  /\ \A o \in Slots : SlotBefore(o, s) => pc[o] # "idle"
  /\ nreq < MaxRequests
  /\ \E q \in Q :
       /\ rq' = [rq EXCEPT ![s] = q]
       /\ pc' = [pc EXCEPT ![s] = IF q.op \in PublicOps THEN Entry(q.op)
                                   ELSE "authenticate"]
  /\ ctx' = [ctx EXCEPT ![s] = NoCtx]
  /\ loc' = [loc EXCEPT ![s] = NoLoc]
  /\ txw' = [txw EXCEPT ![s] = NoTx]
  /\ res' = [res EXCEPT ![s] = NoRes]
  /\ nreq' = nreq + 1
  /\ UNCHANGED <<db, stock0>>

\* The request is over: the handler has returned and its request, context
\* and response are dropped.
Return(s) ==
  /\ pc[s] = "done"
  /\ pc' = [pc EXCEPT ![s] = "idle"]
  /\ rq' = [rq EXCEPT ![s] = NoRq]
  /\ ctx' = [ctx EXCEPT ![s] = NoCtx]
  /\ txw' = [txw EXCEPT ![s] = NoTx]
  /\ res' = [res EXCEPT ![s] = NoRes]
  /\ UNCHANGED <<db, loc, nreq, stock0>>

\* The response is sent.
Respond(s, status, data, error) ==
  /\ pc' = [pc EXCEPT ![s] = "done"]
  /\ res' = [res EXCEPT ![s] = Reply(status, data, error)]
  /\ loc' = [loc EXCEPT ![s] = NoLoc]

\* sendSuccess(res, data, message, status)
Finish(s, status, data) == Respond(s, status, data, "")

\* sendError(res, message, status)
Fail(s, status, message) == Respond(s, status, {}, message)

\* The handler goes on, to position p with locals l.
GotoWith(s, p, l) ==
  /\ pc' = [pc EXCEPT ![s] = p]
  /\ loc' = [loc EXCEPT ![s] = l]
  /\ UNCHANGED res

Goto(s, p) == GotoWith(s, p, loc[s])

\* A tenant id sent with the request taking the place of the credential's.
ReqOwnerIdOrSent(s, q) ==
  IF q.sentOwnerId # NoId THEN q.sentOwnerId ELSE ctx[s].ownerId

\* req.ownerId: the tenant context attached by authenticate.
ReqOwnerId(s, q) == ctx[s].ownerId

\* authenticate middleware.
Authenticate(s, q) ==
  /\ pc[s] = "authenticate"
  /\ LET token == q.token IN
       IF token.header # "bearer" \/ VerifyThrows(token)
         THEN /\ Fail(s, 401, "Unauthorized")
              /\ UNCHANGED ctx
         ELSE /\ ctx' = [ctx EXCEPT ![s] = [user |-> token.payload,
                                           ownerId |-> token.payload.ownerId]]
              /\ Goto(s, IF HasAuthorize(q.op) THEN "authorize" ELSE Entry(q.op))
  /\ UNCHANGED <<db, rq, txw, nreq, stock0>>

\* A gate that also looks at the stored user and at the body: a MANAGER
\* passes only with the storeId of their own store.
AuthorizeOwnStore(s, q) ==
  /\ pc[s] = "authorize"
  /\ IF ctx[s].user = NoPayload
       THEN Fail(s, 401, "Unauthorized")
       ELSE IF \/ ctx[s].user.role \notin AllowedRoles(q.op)
               \/ /\ ctx[s].user.role = "MANAGER"
                  /\ "storeId" \in DOMAIN q.body
                  /\ q.body.storeId # users[ctx[s].user.userId].storeId
              THEN Fail(s, 403, "Forbidden")
              ELSE Goto(s, Entry(q.op))
  /\ UNCHANGED <<db, rq, ctx, txw, nreq, stock0>>

\* authorize(...allowedRoles) middleware.
Authorize(s, q) ==
  /\ pc[s] = "authorize"
  /\ IF ctx[s].user = NoPayload
       THEN Fail(s, 401, "Unauthorized")
       ELSE IF ctx[s].user.role \notin AllowedRoles(q.op)
              THEN Fail(s, 403, "Forbidden")
              ELSE Goto(s, Entry(q.op))
  /\ UNCHANGED <<db, rq, ctx, txw, nreq, stock0>>

(***************************************************************************)
(* Tenant-scoped lookups.                                                  *)
(***************************************************************************)
\* A lookup by id alone, whatever tenant the row belongs to.
FindAnyTenant(table, id, ownerId) == Exists(table, id)

\* prisma.<table>.findFirst({ where: { id, ownerId } })
FindOwned(table, id, ownerId) == Exists(table, id) /\ table[id].ownerId = ownerId

\* A cashier lookup by id alone.
CashierOfAnyTenant(us, id, ownerId) == Exists(us, id)

\* createTransaction's cashier lookup: an employee of the tenant, or the owner.
CashierFound(us, id, ownerId) ==
  /\ Exists(us, id)
  /\ \/ us[id].ownerId = ownerId
     \/ (id = ownerId /\ us[id].role = "OWNER")

\* A variant lookup by id alone.
VariantOfAnyTenant(vs, ps, id, ownerId) ==
  Exists(vs, id) /\ Exists(ps, vs[id].productId)

\* variant exists and variant.product.ownerId === req.ownerId
VariantOwned(vs, ps, id, ownerId) ==
  /\ Exists(vs, id)
  /\ Exists(ps, vs[id].productId)
  /\ ps[vs[id].productId].ownerId = ownerId

(***************************************************************************)
(* Response data: the rows a response carries, each as its kind, its id    *)
(* and the tenant the row belongs to, with the rows its include clauses    *)
(* join in.                                                                *)
(***************************************************************************)
Rec(kind, id, ownerId) == [kind |-> kind, id |-> id, ownerId |-> ownerId]

\* The id of the k-th committed Transaction row.
TxnId(k) == ToString(k)

\* The tenant of a user: the owner it works for, or itself when it is an owner.
UserTenant(id) == IF users[id].ownerId = NoId THEN id ELSE users[id].ownerId

StoreRec(id) == Rec("store", id, stores[id].ownerId)
CategoryRec(id) == Rec("category", id, categories[id].ownerId)
ProductRec(id) == Rec("product", id, products[id].ownerId)
VariantRec(id) == Rec("variant", id, products[variants[id].productId].ownerId)
UserRec(id) == Rec("user", id, UserTenant(id))
TxnRec(k) == Rec("transaction", TxnId(k), transactions[k].ownerId)

VariantsOf(productId) == {v \in DOMAIN variants : variants[v].productId = productId}

\* include: { category, store, variants }
ProductWith(id) ==
  {ProductRec(id), CategoryRec(products[id].categoryId), StoreRec(products[id].storeId)}
    \cup {VariantRec(v) : v \in VariantsOf(id)}

\* include: { product: { include: { category, store } } }
VariantWith(id) ==
  LET p == variants[id].productId
  IN  {VariantRec(id), ProductRec(p), CategoryRec(products[p].categoryId),
       StoreRec(products[p].storeId)}

\* The variants the items of the k-th transaction refer to.
ItemVariants(k) ==
  {transactions[k].items[i].productVariantId : i \in DOMAIN transactions[k].items}

\* include: { cashier, store, items: { productVariant: { product } } }
TxnWith(k) ==
  {TxnRec(k), UserRec(transactions[k].cashierId), StoreRec(transactions[k].storeId)}
    \cup {VariantRec(v) : v \in ItemVariants(k)}
    \cup {ProductRec(variants[v].productId) : v \in ItemVariants(k)}

(***************************************************************************)
(* The database transaction of createTransaction.  Its writes stay in txw  *)
(* until the commit; an update of a row takes the row's lock, which any    *)
(* other writer of that row waits for.                                     *)
(***************************************************************************)
\* A rolled back transaction: its writes are dropped and its locks released;
\* undone remembers the variants whose uncommitted change was dropped.
RolledBack(w) == [NoTx EXCEPT !.undone = w.locked]

LockedByOther(s, v) == \E o \in Slots \ {s} : v \in txw[o].locked

\* A transaction whose stock writes survive its rollback.
TxOutcomeKeepsWrites(vs, w, committed) ==
  [v \in DOMAIN vs |->
     [vs[v] EXCEPT !.stockQuantity = vs[v].stockQuantity + w.delta[v]]]

\* The variants table once the transaction w has ended, committed or rolled back.
TxOutcome(vs, w, committed) ==
  IF committed
    THEN [v \in DOMAIN vs |->
            [vs[v] EXCEPT !.stockQuantity = vs[v].stockQuantity + w.delta[v]]]
    ELSE vs

\* const { type = 'SALE' } = req.body
TypeOf(body) == IF body.type = NoId THEN "SALE" ELSE body.type

\* A stock change that takes the quantity out of the stock whatever the type.
StockChangeAlwaysOut(type, quantity) == 0 - quantity

\* stockChange = type === 'SALE' ? -item.quantity : item.quantity
StockChange(type, quantity) == IF type = "SALE" THEN 0 - quantity ELSE quantity

\* A computed line whose subtotal leaves the line discount out.
ItemRowUndiscounted(item, price) ==
  [productVariantId |-> item.productVariantId,
   quantity |-> item.quantity,
   unitPrice |-> price,
   discount |-> OrElse(item.discount, 0),
   subtotal |-> price * item.quantity]

\* One computed line: unitPrice x quantity - (item.discount || 0).
ItemRow(item, price) ==
  [productVariantId |-> item.productVariantId,
   quantity |-> item.quantity,
   unitPrice |-> price,
   discount |-> OrElse(item.discount, 0),
   subtotal |-> price * item.quantity - OrElse(item.discount, 0)]

\* The Transaction row written by tx.transaction.create, with its items.
TransactionRow(body, ownerId, items, subtotal, transactionNo) ==
  LET tax == OrElse(body.tax, 0)
      discount == OrElse(body.discount, 0)
      total == subtotal + tax - discount
      paid == OrElse(body.amountPaid, total)
      change == paid - total
  IN  [transactionNo |-> transactionNo,
       type |-> TypeOf(body),
       storeId |-> body.storeId,
       cashierId |-> body.cashierId,
       ownerId |-> ownerId,
       subtotal |-> subtotal,
       tax |-> tax,
       discount |-> discount,
       total |-> total,
       amountPaid |-> paid,
       change |-> IF change > 0 THEN change ELSE 0,
       items |-> items]

\* Transaction numbers in use, committed or not.
UsedNos ==
  {transactions[k].transactionNo : k \in DOMAIN transactions}
    \cup {txw[o].rows[1].transactionNo : o \in {x \in Slots : txw[x].rows # <<>>}}
    \cup {loc[o].txNo : o \in {x \in Slots : pc[x] = "ct_create"}}

\* The generator's outcomes: a number nobody has, or one that collides.
TxnNoChoices == UsedNos \cup {Cardinality(UsedNos) + 1}

(***************************************************************************)
(* createTransaction.                                                      *)
(***************************************************************************)
\* Tenant context and required fields.
CtFields(s, q) ==
  /\ pc[s] = "ct_fields"
  /\ LET b == q.body IN
       IF ReqOwnerId(s, q) = NoId
         THEN Fail(s, 401, "Unauthorized")
         ELSE IF b.storeId = NoId \/ b.cashierId = NoId \/ Len(b.items) = 0
                   \/ b.paymentMethod = NoId
                THEN Fail(s, 400, "BadRequest")
                ELSE Goto(s, "ct_store")
  /\ UNCHANGED <<db, rq, ctx, txw, nreq, stock0>>

\* Store lookup.
CtStore(s, q) ==
  /\ pc[s] = "ct_store"
  /\ IF FindOwned(stores, q.body.storeId, ReqOwnerId(s, q))
       THEN Goto(s, "ct_cashier")
       ELSE Fail(s, 404, "NotFound")
  /\ UNCHANGED <<db, rq, ctx, txw, nreq, stock0>>

\* Cashier lookup.
CtCashier(s, q) ==
  /\ pc[s] = "ct_cashier"
  /\ IF CashierFound(users, q.body.cashierId, ReqOwnerId(s, q))
       THEN Goto(s, "ct_item")
       ELSE Fail(s, 404, "NotFound")
  /\ UNCHANGED <<db, rq, ctx, txw, nreq, stock0>>

\* A validation loop that, short of stock, takes what stock there is.
CtItemTakesStock(s, q) ==
  /\ pc[s] = "ct_item"
  /\ LET b == q.body
         item == b.items[loc[s].i]
         id == item.productVariantId
     IN  IF ~VariantOwned(variants, products, id, ReqOwnerId(s, q))
           THEN Fail(s, 404, "NotFound") /\ UNCHANGED variants
           ELSE IF TypeOf(b) = "SALE" /\ variants[id].stockQuantity < item.quantity
                  THEN /\ Fail(s, 400, "InsufficientStock")
                       /\ variants' = [variants EXCEPT ![id].stockQuantity = 0]
                  ELSE /\ UNCHANGED variants
                       /\ IF loc[s].i < Len(b.items)
                            THEN GotoWith(s, "ct_item", [loc[s] EXCEPT !.i = @ + 1])
                            ELSE GotoWith(s, "ct_compute", [loc[s] EXCEPT !.i = 1])
  /\ UNCHANGED <<users, stores, categories, products, transactions, rq, ctx, txw, nreq,
                 stock0>>

\* One turn of the validation loop: the variant of item i and its stock.
CtItem(s, q) ==
  /\ pc[s] = "ct_item"
  /\ LET b == q.body
         item == b.items[loc[s].i]
         id == item.productVariantId
     IN  IF ~VariantOwned(variants, products, id, ReqOwnerId(s, q))
           THEN Fail(s, 404, "NotFound")
           ELSE IF TypeOf(b) = "SALE" /\ variants[id].stockQuantity < item.quantity
                  THEN Fail(s, 400, "InsufficientStock")
                  ELSE IF loc[s].i < Len(b.items)
                         THEN GotoWith(s, "ct_item", [loc[s] EXCEPT !.i = @ + 1])
                         ELSE GotoWith(s, "ct_compute", [loc[s] EXCEPT !.i = 1])
  /\ UNCHANGED <<db, rq, ctx, txw, nreq, stock0>>

\* One turn of the totals loop; after the last item the transaction number
\* is generated.
CtCompute(s, q) ==
  /\ pc[s] = "ct_compute"
  /\ LET b == q.body
         item == b.items[loc[s].i]
         id == item.productVariantId
     IN  IF ~Exists(variants, id)
           THEN Fail(s, 500, "TypeError")
           ELSE LET row == ItemRow(item, variants[id].sellingPrice)
                    l == [loc[s] EXCEPT !.items = Append(@, row),
                                        !.subtotal = @ + row.subtotal]
                IN  IF loc[s].i < Len(b.items)
                      THEN GotoWith(s, "ct_compute", [l EXCEPT !.i = @ + 1])
                      ELSE \E n \in TxnNoChoices :
                             GotoWith(s, "ct_create", [l EXCEPT !.i = 1, !.txNo = n])
  /\ UNCHANGED <<db, rq, ctx, txw, nreq, stock0>>

\* The transaction begins: tx.transaction.create with its items.  A missing
\* referenced row or a taken transaction number makes it throw.
CtCreate(s, q) ==
  /\ pc[s] = "ct_create"
  /\ LET b == q.body
         row == TransactionRow(b, ReqOwnerId(s, q), loc[s].items, loc[s].subtotal,
                               loc[s].txNo)
         refsOk == /\ Exists(stores, b.storeId)
                   /\ Exists(users, b.cashierId)
                   /\ \A k \in DOMAIN b.items : Exists(variants, b.items[k].productVariantId)
         taken == \E k \in DOMAIN transactions :
                    transactions[k].transactionNo = row.transactionNo
     IN  /\ ~\E o \in Slots \ {s} :
               txw[o].rows # <<>> /\ txw[o].rows[1].transactionNo = row.transactionNo
         /\ IF ~refsOk \/ taken
              THEN /\ Fail(s, 500, IF taken THEN "UniqueConstraint" ELSE "ForeignKey")
                   /\ UNCHANGED txw
              ELSE /\ txw' = [txw EXCEPT ![s].open = TRUE, ![s].rows = <<row>>]
                   /\ Goto(s, "ct_update")
  /\ UNCHANGED <<db, rq, ctx, nreq, stock0>>

\* One turn of the stock loop: increment the stock of item i's variant.
CtUpdate(s, q) ==
  /\ pc[s] = "ct_update"
  /\ LET b == q.body
         item == b.items[loc[s].i]
         id == item.productVariantId
     IN  IF ~Exists(variants, id)
           THEN /\ variants' = TxOutcome(variants, txw[s], FALSE)
                /\ txw' = [txw EXCEPT ![s] = RolledBack(txw[s])]
                /\ Fail(s, 500, "RecordNotFound")
           ELSE /\ ~LockedByOther(s, id)
                /\ UNCHANGED variants
                /\ txw' = [txw EXCEPT
                     ![s].delta[id] = @ + StockChange(TypeOf(b), item.quantity),
                     ![s].locked = @ \cup {id}]
                /\ IF loc[s].i < Len(b.items)
                     THEN GotoWith(s, "ct_update", [loc[s] EXCEPT !.i = @ + 1])
                     ELSE GotoWith(s, "ct_commit", [loc[s] EXCEPT !.i = 1])
  /\ UNCHANGED <<users, stores, categories, products, transactions, rq, ctx, nreq, stock0>>

\* The commit: the row, its items and the stock changes become visible.
CtCommit(s, q) ==
  /\ pc[s] = "ct_commit"
  /\ transactions' = transactions \o txw[s].rows
  /\ variants' = TxOutcome(variants, txw[s], TRUE)
  /\ txw' = [txw EXCEPT ![s] = NoTx]
  /\ Finish(s, 201, {Rec("transaction", TxnId(Len(transactions) + 1),
                          txw[s].rows[1].ownerId)})
  /\ UNCHANGED <<users, stores, categories, products, rq, ctx, nreq, stock0>>

\* A database that never ends an open transaction from outside.
CtAbortNever(s, q) ==
  /\ FALSE
  /\ UNCHANGED vars

\* The transaction is ended from outside while open (its timeout expires, it is
\* chosen as the victim of a deadlock, the connection drops): it is rolled back
\* and the handler's catch answers 500.
CtAbort(s, q) ==
  /\ pc[s] \in {"ct_update", "ct_commit"}
  /\ variants' = TxOutcome(variants, txw[s], FALSE)
  /\ txw' = [txw EXCEPT ![s] = RolledBack(txw[s])]
  /\ Fail(s, 500, "TransactionAborted")
  /\ UNCHANGED <<users, stores, categories, products, transactions, rq, ctx, nreq, stock0>>

(***************************************************************************)
(* Variant handlers.                                                       *)
(***************************************************************************)
SetStock(vs, id, n) == [vs EXCEPT ![id].stockQuantity = n]

\* An adjustStock that does not compare the new quantity with zero.
AdjustStockUnchecked(b, id, ownerId) ==
  IF ownerId = NoId THEN 401
  ELSE IF b.adjustment = Undef \/ b.adjustment[1] = 0 THEN 400
  ELSE IF ~VariantOwned(variants, products, id, ownerId) THEN 404
  ELSE 0

\* adjustStock's answer to a refused request, 0 when it goes on to the write.
AdjustStockRefusal(b, id, ownerId) ==
  IF ownerId = NoId THEN 401
  ELSE IF b.adjustment = Undef \/ b.adjustment[1] = 0 THEN 400
  ELSE IF ~VariantOwned(variants, products, id, ownerId) THEN 404
  ELSE IF variants[id].stockQuantity + b.adjustment[1] < 0 THEN 400
  ELSE 0

\* adjustStock up to its read: the checks, and the new quantity computed from
\* the stock read.
AsRead(s, q) ==
  /\ pc[s] = "as_read"
  /\ LET b == q.body
         id == q.id
         refusal == AdjustStockRefusal(b, id, ReqOwnerId(s, q))
     IN  IF refusal # 0
           THEN Fail(s, refusal, "Refused")
           ELSE GotoWith(s, "as_write", [loc[s] EXCEPT !.newStock =
                           variants[id].stockQuantity + b.adjustment[1]])
  /\ UNCHANGED <<db, rq, ctx, txw, nreq, stock0>>

\* adjustStock's write: stockQuantity is set to the quantity computed.
AsWrite(s, q) ==
  /\ pc[s] = "as_write"
  /\ LET id == q.id IN
       IF ~Exists(variants, id)
         THEN Fail(s, 500, "RecordNotFound") /\ UNCHANGED variants
         ELSE /\ ~LockedByOther(s, id)
              /\ variants' = SetStock(variants, id, loc[s].newStock)
              /\ Finish(s, 200, {VariantRec(id)})
  /\ UNCHANGED <<users, stores, categories, products, transactions, rq, ctx, txw, nreq, stock0>>

\* updateVariant up to its write: tenant check (no other field than
\* stockQuantity is sent, so no duplicate lookups run).
UvRead(s, q) ==
  /\ pc[s] = "uv_read"
  /\ IF ReqOwnerId(s, q) = NoId
       THEN Fail(s, 401, "Unauthorized")
       ELSE IF ~VariantOwned(variants, products, q.id, ReqOwnerId(s, q))
              THEN Fail(s, 404, "NotFound")
              ELSE Goto(s, "uv_write")
  /\ UNCHANGED <<db, rq, ctx, txw, nreq, stock0>>

\* updateVariant's write: the supplied fields are stored as sent.
UvWrite(s, q) ==
  /\ pc[s] = "uv_write"
  /\ LET id == q.id
         b == q.body
     IN  IF ~Exists(variants, id)
           THEN Fail(s, 500, "RecordNotFound") /\ UNCHANGED variants
           ELSE /\ ~LockedByOther(s, id)
                /\ variants' = IF b.stockQuantity # Undef
                                 THEN SetStock(variants, id, b.stockQuantity[1])
                                 ELSE variants
                /\ Finish(s, 200, {VariantRec(id)})
  /\ UNCHANGED <<users, stores, categories, products, transactions, rq, ctx, txw, nreq, stock0>>

\* createVariant's answer to a refused request, 0 when it goes through.
CreateVariantRefusal(b, productId, ownerId) ==
  IF ownerId = NoId THEN 401
  ELSE IF b.sku = NoId \/ b.sellingPrice = Undef THEN 400
  ELSE IF ~FindOwned(products, productId, ownerId) THEN 404
  ELSE IF \E v \in DOMAIN variants : variants[v].sku = b.sku THEN 409
  ELSE 0

\* createVariant: stockQuantity || 0 is stored as sent.
CreateVariant(s, q) ==
  /\ pc[s] = "handler" /\ q.op = "createVariant"
  /\ LET b == q.body
         productId == q.id
         refusal == CreateVariantRefusal(b, productId, ReqOwnerId(s, q))
     IN  IF refusal # 0
           THEN Fail(s, refusal, "Refused") /\ UNCHANGED variants
           ELSE /\ VariantIds \ DOMAIN variants # {}
                /\ LET id == FreshId(VariantIds, variants) IN
                     /\ variants' = Insert(variants, id,
                          [productId |-> productId, sku |-> b.sku, barcode |-> b.barcode,
                           sellingPrice |-> b.sellingPrice[1],
                           stockQuantity |-> OrElse(b.stockQuantity, 0)])
                     /\ Finish(s, 201, {Rec("variant", id, products[productId].ownerId)})
  /\ UNCHANGED <<users, stores, categories, products, transactions, rq, ctx, txw, nreq, stock0>>

(***************************************************************************)
(* Tenant-scoped handlers.  Each runs after authenticate and, where the    *)
(* route has one, authorize; each is one step from its first read to its   *)
(* response.                                                               *)
(***************************************************************************)
Handles(s, q, op) == pc[s] = "handler" /\ q.op = op

\* What a handler leaves alone besides the tables.
KeepRest == UNCHANGED <<rq, ctx, txw, nreq, stock0>>

\* prisma.<table>.findMany({ where: { ownerId } })
OwnedIds(table, ownerId) == {x \in DOMAIN table : table[x].ownerId = ownerId}

\* if (storeId) where.storeId = storeId
StoreFilter(q, row) == q.query.storeId = NoId \/ row.storeId = q.query.storeId

\* A variant has TransactionItem rows.
HasItems(v) == \E k \in DOMAIN transactions : v \in ItemVariants(k)

GetAllStores(s, q) ==
  /\ Handles(s, q, "getAllStores")
  /\ LET o == ReqOwnerId(s, q) IN
       IF o = NoId THEN Fail(s, 401, "Unauthorized")
       ELSE Finish(s, 200, {StoreRec(x) : x \in OwnedIds(stores, o)})
  /\ UNCHANGED db /\ KeepRest

GetStoreById(s, q) ==
  /\ Handles(s, q, "getStoreById")
  /\ LET o == ReqOwnerId(s, q) IN
       IF o = NoId THEN Fail(s, 401, "Unauthorized")
       ELSE IF ~FindOwned(stores, q.id, o) THEN Fail(s, 404, "NotFound")
       ELSE Finish(s, 200, {StoreRec(q.id)})
  /\ UNCHANGED db /\ KeepRest

CreateStore(s, q) ==
  /\ Handles(s, q, "createStore")
  /\ LET o == ReqOwnerId(s, q) IN
       IF o = NoId THEN Fail(s, 401, "Unauthorized") /\ UNCHANGED stores
       ELSE IF q.body.name = NoId THEN Fail(s, 400, "BadRequest") /\ UNCHANGED stores
       ELSE /\ StoreIds \ DOMAIN stores # {}
            /\ LET id == FreshId(StoreIds, stores) IN
                 /\ stores' = Insert(stores, id, [ownerId |-> o, name |-> q.body.name])
                 /\ Finish(s, 201, {Rec("store", id, o)})
  /\ UNCHANGED <<users, categories, products, variants, transactions>> /\ KeepRest

UpdateStore(s, q) ==
  /\ Handles(s, q, "updateStore")
  /\ LET o == ReqOwnerId(s, q) IN
       IF o = NoId THEN Fail(s, 401, "Unauthorized") /\ UNCHANGED stores
       ELSE IF ~FindOwned(stores, q.id, o) THEN Fail(s, 404, "NotFound") /\ UNCHANGED stores
       ELSE /\ stores' = [stores EXCEPT ![q.id].name =
                            IF q.body.name # NoId THEN q.body.name ELSE @]
            /\ Finish(s, 200, {StoreRec(q.id)})
  /\ UNCHANGED <<users, categories, products, variants, transactions>> /\ KeepRest

\* deleteStore up to its delete: the store of the tenant with the counts of
\* its employees, products and transactions.
DsRead(s, q) ==
  /\ pc[s] = "ds_read"
  /\ LET o == ReqOwnerId(s, q)
         used == \/ \E u \in DOMAIN users : users[u].storeId = q.id
                 \/ \E p \in DOMAIN products : products[p].storeId = q.id
                 \/ \E k \in DOMAIN transactions : transactions[k].storeId = q.id
     IN  IF o = NoId THEN Fail(s, 401, "Unauthorized")
         ELSE IF ~FindOwned(stores, q.id, o) THEN Fail(s, 404, "NotFound")
         ELSE IF used THEN Fail(s, 400, "HasDependents")
         ELSE Goto(s, "ds_write")
  /\ UNCHANGED db /\ KeepRest

\* A Transaction row of the store written by a database transaction of
\* another handler that is still open: the delete waits for its end.
StoreHeldByOther(s, id) ==
  \E o \in Slots \ {s} : txw[o].rows # <<>> /\ txw[o].rows[1].storeId = id

\* deleteStore's delete.  A store that is gone, or one a Product or a
\* Transaction row refers to (ON DELETE RESTRICT), makes it throw; the
\* storeId of the User rows that refer to it is set to null (ON DELETE SET
\* NULL).
DsWrite(s, q) ==
  /\ pc[s] = "ds_write"
  /\ ~StoreHeldByOther(s, q.id)
  /\ IF ~Exists(stores, q.id)
       THEN Fail(s, 500, "RecordNotFound") /\ UNCHANGED <<stores, users>>
       ELSE IF \/ \E p \in DOMAIN products : products[p].storeId = q.id
               \/ \E k \in DOMAIN transactions : transactions[k].storeId = q.id
              THEN Fail(s, 500, "ForeignKey") /\ UNCHANGED <<stores, users>>
              ELSE /\ stores' = Remove(stores, q.id)
                   /\ users' = [u \in DOMAIN users |->
                                  IF users[u].storeId = q.id
                                    THEN [users[u] EXCEPT !.storeId = NoId]
                                    ELSE users[u]]
                   /\ Finish(s, 200, {})
  /\ UNCHANGED <<categories, products, variants, transactions>> /\ KeepRest

CreateCategory(s, q) ==
  /\ Handles(s, q, "createCategory")
  /\ LET o == ReqOwnerId(s, q) IN
       IF o = NoId THEN Fail(s, 401, "Unauthorized") /\ UNCHANGED categories
       ELSE IF q.body.name = NoId THEN Fail(s, 400, "BadRequest") /\ UNCHANGED categories
       ELSE IF \E g \in OwnedIds(categories, o) : categories[g].name = q.body.name
              THEN Fail(s, 409, "Conflict") /\ UNCHANGED categories
       ELSE /\ CategoryIds \ DOMAIN categories # {}
            /\ LET id == FreshId(CategoryIds, categories) IN
                 /\ categories' = Insert(categories, id, [ownerId |-> o, name |-> q.body.name])
                 /\ Finish(s, 201, {Rec("category", id, o)})
  /\ UNCHANGED <<users, stores, products, variants, transactions>> /\ KeepRest

GetAllProducts(s, q) ==
  /\ Handles(s, q, "getAllProducts")
  /\ LET o == ReqOwnerId(s, q) IN
       IF o = NoId THEN Fail(s, 401, "Unauthorized")
       ELSE Finish(s, 200, UNION {ProductWith(x) :
                     x \in {y \in OwnedIds(products, o) : StoreFilter(q, products[y])}})
  /\ UNCHANGED db /\ KeepRest

GetProductById(s, q) ==
  /\ Handles(s, q, "getProductById")
  /\ LET o == ReqOwnerId(s, q) IN
       IF o = NoId THEN Fail(s, 401, "Unauthorized")
       ELSE IF ~FindOwned(products, q.id, o) THEN Fail(s, 404, "NotFound")
       ELSE Finish(s, 200, ProductWith(q.id))
  /\ UNCHANGED db /\ KeepRest

CreateProduct(s, q) ==
  /\ Handles(s, q, "createProduct")
  /\ LET o == ReqOwnerId(s, q)
         b == q.body
     IN  IF o = NoId THEN Fail(s, 401, "Unauthorized") /\ UNCHANGED products
         ELSE IF b.name = NoId \/ b.categoryId = NoId \/ b.storeId = NoId
                THEN Fail(s, 400, "BadRequest") /\ UNCHANGED products
         ELSE IF ~FindOwned(categories, b.categoryId, o)
                THEN Fail(s, 404, "NotFound") /\ UNCHANGED products
         ELSE IF ~FindOwned(stores, b.storeId, o)
                THEN Fail(s, 404, "NotFound") /\ UNCHANGED products
         ELSE /\ ProductIds \ DOMAIN products # {}
              /\ LET id == FreshId(ProductIds, products) IN
                   /\ products' = Insert(products, id,
                        [ownerId |-> o, storeId |-> b.storeId,
                         categoryId |-> b.categoryId, name |-> b.name])
                   /\ Finish(s, 201, {Rec("product", id, o), CategoryRec(b.categoryId),
                                      StoreRec(b.storeId)})
  /\ UNCHANGED <<users, stores, categories, variants, transactions>> /\ KeepRest

UpdateProduct(s, q) ==
  /\ Handles(s, q, "updateProduct")
  /\ LET o == ReqOwnerId(s, q)
         b == q.body
     IN  IF o = NoId THEN Fail(s, 401, "Unauthorized") /\ UNCHANGED products
         ELSE IF ~FindOwned(products, q.id, o)
                THEN Fail(s, 404, "NotFound") /\ UNCHANGED products
         ELSE IF /\ b.categoryId # NoId /\ b.categoryId # products[q.id].categoryId
                 /\ ~FindOwned(categories, b.categoryId, o)
                THEN Fail(s, 404, "NotFound") /\ UNCHANGED products
         ELSE IF /\ b.storeId # NoId /\ b.storeId # products[q.id].storeId
                 /\ ~FindOwned(stores, b.storeId, o)
                THEN Fail(s, 404, "NotFound") /\ UNCHANGED products
         ELSE /\ products' = [products EXCEPT
                   ![q.id].name = IF b.name # NoId THEN b.name ELSE @,
                   ![q.id].categoryId = IF b.categoryId # NoId THEN b.categoryId ELSE @,
                   ![q.id].storeId = IF b.storeId # NoId THEN b.storeId ELSE @]
              /\ Finish(s, 200, {ProductRec(q.id)} \cup {VariantRec(v) : v \in VariantsOf(q.id)})
  /\ UNCHANGED <<users, stores, categories, variants, transactions>> /\ KeepRest

\* The variants of the product are deleted with it (ON DELETE CASCADE).
DeleteProduct(s, q) ==
  /\ Handles(s, q, "deleteProduct")
  /\ LET o == ReqOwnerId(s, q) IN
       IF o = NoId THEN Fail(s, 401, "Unauthorized") /\ UNCHANGED <<products, variants>>
       ELSE IF ~FindOwned(products, q.id, o)
              THEN Fail(s, 404, "NotFound") /\ UNCHANGED <<products, variants>>
       ELSE IF \E v \in VariantsOf(q.id) : HasItems(v)
              THEN Fail(s, 400, "HasDependents") /\ UNCHANGED <<products, variants>>
       ELSE /\ products' = Remove(products, q.id)
            /\ variants' = [v \in DOMAIN variants \ VariantsOf(q.id) |-> variants[v]]
            /\ Finish(s, 200, {})
  /\ UNCHANGED <<users, stores, categories, transactions>> /\ KeepRest

\* findUnique by id, sku or barcode, then variant.product.ownerId === req.ownerId
VariantReply(s, q, found) ==
  LET o == ReqOwnerId(s, q)
      mine == {v \in found : VariantOwned(variants, products, v, o)}
  IN  IF o = NoId THEN Fail(s, 401, "Unauthorized")
      ELSE IF mine = {} THEN Fail(s, 404, "NotFound")
      ELSE Finish(s, 200, UNION {VariantWith(v) : v \in mine})

GetVariantById(s, q) ==
  /\ Handles(s, q, "getVariantById")
  /\ VariantReply(s, q, {v \in DOMAIN variants : v = q.id})
  /\ UNCHANGED db /\ KeepRest

GetVariantBySku(s, q) ==
  /\ Handles(s, q, "getVariantBySku")
  /\ VariantReply(s, q, {v \in DOMAIN variants : variants[v].sku = q.id})
  /\ UNCHANGED db /\ KeepRest

GetVariantByBarcode(s, q) ==
  /\ Handles(s, q, "getVariantByBarcode")
  /\ VariantReply(s, q, {v \in DOMAIN variants : variants[v].barcode = q.id})
  /\ UNCHANGED db /\ KeepRest

\* A delete that takes the variant's TransactionItem rows with it instead of
\* being refused for them.
DeleteVariantCascading(s, q) ==
  /\ Handles(s, q, "deleteVariant")
  /\ LET o == ReqOwnerId(s, q) IN
       IF o = NoId THEN Fail(s, 401, "Unauthorized") /\ UNCHANGED <<variants, transactions>>
       ELSE IF ~VariantOwned(variants, products, q.id, o)
              THEN Fail(s, 404, "NotFound") /\ UNCHANGED <<variants, transactions>>
       ELSE /\ ~LockedByOther(s, q.id)
            /\ variants' = Remove(variants, q.id)
            /\ transactions' =
                 [k \in DOMAIN transactions |->
                    [transactions[k] EXCEPT !.items =
                       SelectSeq(@, LAMBDA it : it.productVariantId # q.id)]]
            /\ Finish(s, 200, {})
  /\ UNCHANGED <<users, stores, categories, products>> /\ KeepRest

DeleteVariant(s, q) ==
  /\ Handles(s, q, "deleteVariant")
  /\ LET o == ReqOwnerId(s, q) IN
       IF o = NoId THEN Fail(s, 401, "Unauthorized") /\ UNCHANGED variants
       ELSE IF ~VariantOwned(variants, products, q.id, o)
              THEN Fail(s, 404, "NotFound") /\ UNCHANGED variants
       ELSE IF HasItems(q.id) THEN Fail(s, 400, "HasDependents") /\ UNCHANGED variants
       ELSE /\ ~LockedByOther(s, q.id)
            /\ variants' = Remove(variants, q.id)
            /\ Finish(s, 200, {})
  /\ UNCHANGED <<users, stores, categories, products, transactions>> /\ KeepRest

\* The Transaction rows of the tenant that pass the storeId filter of the query.
OwnedTxns(q, ownerId) ==
  {k \in DOMAIN transactions :
     transactions[k].ownerId = ownerId /\ StoreFilter(q, transactions[k])}

GetAllTransactions(s, q) ==
  /\ Handles(s, q, "getAllTransactions")
  /\ LET o == ReqOwnerId(s, q) IN
       IF o = NoId THEN Fail(s, 401, "Unauthorized")
       ELSE Finish(s, 200, UNION {TxnWith(k) : k \in OwnedTxns(q, o)})
  /\ UNCHANGED db /\ KeepRest

GetTransactionById(s, q) ==
  /\ Handles(s, q, "getTransactionById")
  /\ LET o == ReqOwnerId(s, q) IN
       IF o = NoId THEN Fail(s, 401, "Unauthorized")
       ELSE IF ~(q.txId \in DOMAIN transactions /\ transactions[q.txId].ownerId = o)
              THEN Fail(s, 404, "NotFound")
       ELSE Finish(s, 200, TxnWith(q.txId))
  /\ UNCHANGED db /\ KeepRest

\* The response carries sums and counts; data is the rows they are taken over.
GetTransactionStats(s, q) ==
  /\ Handles(s, q, "getTransactionStats")
  /\ LET o == ReqOwnerId(s, q) IN
       IF o = NoId THEN Fail(s, 401, "Unauthorized")
       ELSE Finish(s, 200, {TxnRec(k) : k \in {j \in OwnedTxns(q, o) :
                                                 transactions[j].type = "SALE"}})
  /\ UNCHANGED db /\ KeepRest

\* Every stored transaction is of today.
GetTodayTransactions(s, q) ==
  /\ Handles(s, q, "getTodayTransactions")
  /\ LET o == ReqOwnerId(s, q) IN
       IF o = NoId THEN Fail(s, 401, "Unauthorized")
       ELSE Finish(s, 200, UNION {TxnWith(k) \ {StoreRec(transactions[k].storeId)} :
                                    k \in OwnedTxns(q, o)})
  /\ UNCHANGED db /\ KeepRest

\* prisma.user.findUnique({ where: { email } })
EmailInUse(email) == \E u \in DOMAIN users : users[u].email = email

\* A createEmployee that lets an OWNER be asked for.
CreateEmployeeRefusalOwnerAllowed(b, user, ownerId) ==
  IF user = NoPayload \/ ownerId = NoId THEN 401
  ELSE IF b.email = NoId \/ b.role = NoId \/ b.storeId = NoId THEN 400
  ELSE IF user.role \notin {"OWNER", "MANAGER"} THEN 403
  ELSE IF user.role = "MANAGER" /\ b.role # "CASHIER" THEN 403
  ELSE IF EmailInUse(b.email) THEN 409
  ELSE IF ~FindOwned(stores, b.storeId, ownerId) THEN 404
  ELSE 0

\* createEmployee's answer to a refused request, 0 when it goes on to the
\* create (the e-mail and password sent are well-formed).
CreateEmployeeRefusal(b, user, ownerId) ==
  IF user = NoPayload \/ ownerId = NoId THEN 401
  ELSE IF b.email = NoId \/ b.role = NoId \/ b.storeId = NoId THEN 400
  ELSE IF user.role \notin {"OWNER", "MANAGER"} THEN 403
  ELSE IF user.role = "MANAGER" /\ b.role # "CASHIER" THEN 403
  ELSE IF b.role = "OWNER" THEN 403
  ELSE IF EmailInUse(b.email) THEN 409
  ELSE IF ~FindOwned(stores, b.storeId, ownerId) THEN 404
  ELSE 0

\* An employee row that names no owner.
EmployeeRowUnowned(b, ownerId) ==
  [email |-> b.email, role |-> b.role, ownerId |-> NoId, storeId |-> b.storeId,
   isActive |-> TRUE]

\* prisma.user.create({ data: { ..., role, storeId, ownerId: req.ownerId } })
EmployeeRow(b, ownerId) ==
  [email |-> b.email, role |-> b.role, ownerId |-> ownerId, storeId |-> b.storeId,
   isActive |-> TRUE]

\* createEmployee: the new user belongs to the tenant of the credential.
CreateEmployee(s, q) ==
  /\ Handles(s, q, "createEmployee")
  /\ LET o == ReqOwnerId(s, q)
         b == q.body
         refusal == CreateEmployeeRefusal(b, ctx[s].user, o)
     IN  IF refusal # 0
           THEN Fail(s, refusal, "Refused") /\ UNCHANGED users
           ELSE /\ UserIds \ DOMAIN users # {}
                /\ LET id == FreshId(UserIds, users) IN
                     /\ users' = Insert(users, id, EmployeeRow(b, o))
                     /\ Finish(s, 201, {Rec("user", id, o), StoreRec(b.storeId)})
  /\ UNCHANGED <<stores, categories, products, variants, transactions>> /\ KeepRest

\* currentUser?.storeId of the calling manager.
StoreOfCaller(s) ==
  IF Exists(users, ctx[s].user.userId) THEN users[ctx[s].user.userId].storeId ELSE NoId

UpdateEmployee(s, q) ==
  /\ Handles(s, q, "updateEmployee")
  /\ LET o == ReqOwnerId(s, q)
         b == q.body
         role == ctx[s].user.role
     IN  IF ctx[s].user = NoPayload \/ o = NoId
           THEN Fail(s, 401, "Unauthorized") /\ UNCHANGED users
         ELSE IF role \notin {"OWNER", "MANAGER"}
                THEN Fail(s, 403, "Forbidden") /\ UNCHANGED users
         ELSE IF ~FindOwned(users, q.id, o) THEN Fail(s, 404, "NotFound") /\ UNCHANGED users
         ELSE IF users[q.id].role = "OWNER" THEN Fail(s, 403, "Forbidden") /\ UNCHANGED users
         ELSE IF /\ role = "MANAGER"
                 /\ (users[q.id].storeId # StoreOfCaller(s) \/ users[q.id].role # "CASHIER")
                THEN Fail(s, 403, "Forbidden") /\ UNCHANGED users
         ELSE IF /\ b.storeId # NoId /\ b.storeId # users[q.id].storeId
                 /\ ~FindOwned(stores, b.storeId, o)
                THEN Fail(s, 404, "NotFound") /\ UNCHANGED users
         ELSE /\ users' = [users EXCEPT
                   ![q.id].storeId = IF b.storeId # NoId THEN b.storeId ELSE @,
                   ![q.id].isActive = IF b.isActive # Undef THEN b.isActive[1] ELSE @]
              /\ Finish(s, 200, {UserRec(q.id)})
  /\ UNCHANGED <<stores, categories, products, variants, transactions>> /\ KeepRest

\* A user who is the cashier of a transaction cannot be deleted (ON DELETE
\* RESTRICT): the delete throws and the catch answers 500.
DeleteEmployee(s, q) ==
  /\ Handles(s, q, "deleteEmployee")
  /\ LET o == ReqOwnerId(s, q) IN
       IF ctx[s].user = NoPayload \/ o = NoId
         THEN Fail(s, 401, "Unauthorized") /\ UNCHANGED users
       ELSE IF ctx[s].user.role # "OWNER" THEN Fail(s, 403, "Forbidden") /\ UNCHANGED users
       ELSE IF ~FindOwned(users, q.id, o) THEN Fail(s, 404, "NotFound") /\ UNCHANGED users
       ELSE IF users[q.id].role = "OWNER" THEN Fail(s, 403, "Forbidden") /\ UNCHANGED users
       ELSE IF \E k \in DOMAIN transactions : transactions[k].cashierId = q.id
              THEN Fail(s, 500, "ForeignKey") /\ UNCHANGED users
       ELSE users' = Remove(users, q.id) /\ Finish(s, 200, {})
  /\ UNCHANGED <<stores, categories, products, variants, transactions>> /\ KeepRest

(***************************************************************************)
(* Accounts.  register and login are public routes: no authenticate runs   *)
(* before them.  Passwords are not stored in the model: "good" is the      *)
(* password of every user and passes the strength rules, "weak" does not   *)
(* pass them, any other password is a wrong one.                           *)
(***************************************************************************)
\* The token in the body of the response, by its payload.
Issued(payload) ==
  [kind |-> "token", id |-> payload.userId, ownerId |-> payload.ownerId,
   role |-> payload.role]

\* register: a new OWNER with a null ownerId, and a token whose ownerId is
\* the new user's id.
Register(s, q) ==
  /\ Handles(s, q, "register")
  /\ LET b == q.body IN
       IF b.email = NoId \/ b.password = NoId
         THEN Fail(s, 400, "BadRequest") /\ UNCHANGED users
       ELSE IF b.password = "weak" THEN Fail(s, 400, "WeakPassword") /\ UNCHANGED users
       ELSE IF EmailInUse(b.email) THEN Fail(s, 409, "Conflict") /\ UNCHANGED users
       ELSE /\ UserIds \ DOMAIN users # {}
            /\ LET id == FreshId(UserIds, users) IN
                 /\ users' = Insert(users, id, [email |-> b.email, role |-> "OWNER",
                                                ownerId |-> NoId, storeId |-> NoId,
                                                isActive |-> TRUE])
                 /\ Finish(s, 201, {Rec("user", id, id),
                                    Issued([userId |-> id, role |-> "OWNER",
                                            ownerId |-> id])})
  /\ UNCHANGED <<stores, categories, products, variants, transactions>> /\ KeepRest

\* prisma.user.findUnique({ where: { email } }): the id of the user found.
UserByEmail(email) == CHOOSE u \in DOMAIN users : users[u].email = email

\* login: the token of an active user who sends their password.
Login(s, q) ==
  /\ Handles(s, q, "login")
  /\ LET b == q.body IN
       IF b.email = NoId \/ b.password = NoId THEN Fail(s, 400, "BadRequest")
       ELSE IF ~EmailInUse(b.email) THEN Fail(s, 401, "InvalidCredentials")
       ELSE LET u == UserByEmail(b.email) IN
              IF ~users[u].isActive THEN Fail(s, 403, "Deactivated")
              ELSE IF b.password # "good" THEN Fail(s, 401, "InvalidCredentials")
              ELSE Finish(s, 200, {UserRec(u), Issued(LoginPayload(u, users[u]))})
  /\ UNCHANGED db /\ KeepRest

(***************************************************************************)
(* Requests of the transaction engine: one tenant's sales, returns and     *)
(* stock changes on its own variants, run by two concurrent handlers.      *)
(***************************************************************************)
Line(v, q) == [productVariantId |-> v, quantity |-> q, discount |-> Undef]

\* One line, two lines on two variants (in either order), one variant twice.
SaleItemLists ==
  { <<Line("v1", 1)>>, <<Line("v1", 3)>>,
    <<Line("v1", 1), Line("v2", 1)>>, <<Line("v1", 3), Line("v2", 3)>>,
    <<Line("v2", 1), Line("v1", 1)>>, <<Line("v1", 3), Line("v1", 3)>> }

\* Sales (no type sent) of every list, returns of two of them.
SaleBodies ==
  {[storeId |-> "s1", cashierId |-> "oA", type |-> NoId, items |-> l,
    paymentMethod |-> "CASH", amountPaid |-> Undef, tax |-> Undef, discount |-> Undef] :
     l \in SaleItemLists}
  \cup
  {[storeId |-> "s1", cashierId |-> "oA", type |-> "RETURN", items |-> l,
    paymentMethod |-> "CASH", amountPaid |-> Undef, tax |-> Undef, discount |-> Undef] :
     l \in {<<Line("v1", 1)>>, <<Line("v1", 3), Line("v2", 3)>>}}

SaleRequests ==
  {Request("createTransaction", TokenOf("oA"), NoId, b) : b \in SaleBodies}
  \cup
  {Request("adjustStock", TokenOf("oA"), "v1",
           [adjustment |-> Some(a), reason |-> "count"]) : a \in {0 - 1, 2}}
  \cup
  {Request("updateVariant", TokenOf("oA"), "v1", [stockQuantity |-> n]) :
     n \in {Undef, Some(0 - 1), Some(4)}}
  \cup
  {Request("createVariant", TokenOf("oA"), "p1",
           [sku |-> "k4", barcode |-> "b4", sellingPrice |-> Some(3),
            stockQuantity |-> n]) : n \in {Undef, Some(0 - 2)}}

InitStocks == {1, 5}

InitHandlers ==
  /\ pc = [s \in Slots |-> "idle"]
  /\ rq = [s \in Slots |-> NoRq]
  /\ ctx = [s \in Slots |-> NoCtx]
  /\ loc = [s \in Slots |-> NoLoc]
  /\ txw = [s \in Slots |-> NoTx]
  /\ res = [s \in Slots |-> NoRes]
  /\ nreq = 0

Init ==
  /\ users = SeedUsers
  /\ stores = SeedStores
  /\ categories = SeedCategories
  /\ products = SeedProducts
  /\ \E st \in InitStocks : variants = SeedVariants(st, 2)
  /\ stock0 = [v \in DOMAIN variants |-> variants[v].stockQuantity]
  /\ transactions = <<>>
  /\ InitHandlers

Next ==
  \E s \in Slots :
    \/ Receive(s, SaleRequests)
    \/ Return(s)
    \/ Authenticate(s, rq[s])
    \/ Authorize(s, rq[s])
    \/ CtFields(s, rq[s])
    \/ CtStore(s, rq[s])
    \/ CtCashier(s, rq[s])
    \/ CtItem(s, rq[s])
    \/ CtCompute(s, rq[s])
    \/ CtCreate(s, rq[s])
    \/ CtUpdate(s, rq[s])
    \/ CtCommit(s, rq[s])
    \/ CtAbort(s, rq[s])
    \/ AsRead(s, rq[s])
    \/ AsWrite(s, rq[s])
    \/ UvRead(s, rq[s])
    \/ UvWrite(s, rq[s])
    \/ CreateVariant(s, rq[s])

Spec == Init /\ [][Next]_vars

(***************************************************************************)
(* Requests of the tenant-scoped API: the users of two tenants, and        *)
(* callers without a valid credential, reading and changing the rows of    *)
(* either tenant, one request after the other.                             *)
(***************************************************************************)
Callers == {"oA", "mA", "cA", "oB"}

\* A header that is absent or not 'Bearer ...', a token that does not parse,
\* one signed with another key, one that has expired.
BadTokens ==
  { [TokenOf("oA") EXCEPT !.header = "none"],
    [TokenOf("oA") EXCEPT !.header = "basic"],
    [TokenOf("oA") EXCEPT !.sig = "malformed"],
    [TokenOf("oA") EXCEPT !.sig = "forged"],
    [TokenOf("oA") EXCEPT !.expired = TRUE] }

\* A token signed before tokens carried an ownerId.
LegacyToken == [header |-> "bearer", sig |-> "good", expired |-> FALSE,
                payload |-> [userId |-> "cA", role |-> "CASHIER", ownerId |-> NoId]]

NoBody == [none |-> TRUE]

TxnBody(storeId, cashierId, items) ==
  [storeId |-> storeId, cashierId |-> cashierId, type |-> NoId, items |-> items,
   paymentMethod |-> "CASH", amountPaid |-> Undef, tax |-> Undef, discount |-> Undef]

\* Sales of tenant oA's rows, of tenant oB's rows and of mixtures of both.
TxnBodies ==
  { TxnBody("s1", "oA", <<Line("v1", 1)>>),
    TxnBody("s1", "cA", <<Line("v1", 1)>>),
    TxnBody("s1", "oA", <<Line("v1", 9)>>),
    TxnBody(NoId, "oA", <<Line("v1", 1)>>),
    TxnBody("s2", "oA", <<Line("v1", 1)>>),
    TxnBody("s1", "cB", <<Line("v1", 1)>>),
    TxnBody("s1", "oB", <<Line("v1", 1)>>),
    TxnBody("s1", "oA", <<Line("v3", 1)>>),
    TxnBody("s1", "oA", <<Line("v1", 1), Line("v3", 1)>>),
    TxnBody("s1", "oA", <<Line("v1", 9), Line("v3", 1)>>),
    TxnBody("s2", "cB", <<Line("v3", 1)>>) }

\* The reads a caller with the given token sends.
ReadRequests(token) ==
  {Request(op, token, NoId, NoBody) : op \in {"getAllStores"}}
  \cup {Request("getStoreById", token, id, NoBody) : id \in {"s1", "s2", "s3"}}
  \cup {Request("getProductById", token, id, NoBody) : id \in {"p1", "p2", "p3"}}
  \cup {Request("getVariantById", token, id, NoBody) : id \in {"v1", "v3", "v4"}}
  \cup {Request("getVariantBySku", token, id, NoBody) : id \in {"k1", "k3", "k4"}}
  \cup {Request("getVariantByBarcode", token, id, NoBody) : id \in {"b1", "b3", "b4"}}
  \cup {[Request("getTransactionById", token, NoId, NoBody) EXCEPT !.txId = k] :
          k \in {1, 2, 3}}
  \cup {[Request(op, token, NoId, NoBody) EXCEPT !.query = [storeId |-> f]] :
          op \in {"getAllProducts", "getAllTransactions", "getTransactionStats",
                  "getTodayTransactions"},
          f \in {NoId, "s2"}}

\* The creations a caller sends, with and without a tenant id of their own
\* choosing sent along.
CreateRequests(token) ==
  {[r EXCEPT !.sentOwnerId = t] :
     t \in {NoId, "oB"},
     r \in {Request("createStore", token, NoId, [name |-> n]) : n \in {"n1", NoId}}
           \cup {Request("createCategory", token, NoId, [name |-> "n1"])}
           \cup {Request("createProduct", token, NoId,
                         [name |-> "n1", categoryId |-> g, storeId |-> st]) :
                   g \in {"g1", "g2"}, st \in {"s1", "s2"}}
           \cup {Request("createVariant", token, p,
                         [sku |-> "k4", barcode |-> "b4", sellingPrice |-> Some(3),
                          stockQuantity |-> Undef]) : p \in {"p1", "p2"}}
           \cup {Request("createEmployee", token, NoId,
                         [email |-> "e", role |-> r2, storeId |-> st]) :
                   r2 \in {"CASHIER", "MANAGER"}, st \in {"s1", "s2"}}
           \cup {Request("createTransaction", token, NoId, b) : b \in TxnBodies}}

\* The updates and deletions a caller sends.
ChangeRequests(token) ==
  {Request("updateStore", token, id, [name |-> "n2"]) : id \in {"s1", "s2", "s3"}}
  \cup {Request("deleteStore", token, id, NoBody) : id \in {"s1", "s2", "s3"}}
  \cup {Request("updateProduct", token, id,
                [name |-> "n2", categoryId |-> NoId, storeId |-> st]) :
          id \in {"p1", "p2"}, st \in {NoId, "s2"}}
  \cup {Request("deleteProduct", token, id, NoBody) : id \in {"p1", "p2", "p3"}}
  \cup {Request("updateVariant", token, id, [stockQuantity |-> Some(4)]) :
          id \in {"v1", "v3"}}
  \cup {Request("adjustStock", token, id, [adjustment |-> Some(a), reason |-> "count"]) :
          id \in {"v1", "v3"}, a \in {0, 2}}
  \cup {Request("deleteVariant", token, id, NoBody) : id \in {"v1", "v2", "v3"}}
  \cup {Request("updateEmployee", token, id, [storeId |-> NoId, isActive |-> Some(FALSE)]) :
          id \in {"cA", "cB", "oB"}}
  \cup {Request("deleteEmployee", token, id, NoBody) : id \in {"cA", "cB", "mA"}}

RequestsOf(token) == ReadRequests(token) \cup CreateRequests(token) \cup ChangeRequests(token)

\* One request to each kind of route.
SampleRequests(token) ==
  {r \in RequestsOf(token) :
     /\ r.sentOwnerId = NoId /\ r.query = NoQuery /\ r.txId \in {0, 1}
     /\ r.id \in {NoId, "s1", "p1", "v1", "cA"}
     /\ r.op \in {"getStoreById", "getAllProducts", "getVariantById", "getTransactionById",
                  "createStore", "deleteStore", "updateProduct", "adjustStock",
                  "updateVariant", "deleteEmployee", "createTransaction"}
     /\ r.op = "createTransaction" => r.body = TxnBody("s1", "oA", <<Line("v1", 1)>>)
     /\ r.op = "createStore" => r.body.name # NoId
     /\ r.op = "adjustStock" => r.body.adjustment = Some(2)
     /\ r.op = "updateProduct" => r.body.storeId = NoId}

\* A line with a line discount.
DiscountedLine(v, q, d) == [productVariantId |-> v, quantity |-> q, discount |-> Some(d)]

\* Bodies that lack a required field, have no items, or ask for a quantity
\* that is not positive.
MalformedBodies ==
  { [TxnBody("s1", "oA", <<Line("v1", 1)>>) EXCEPT !.paymentMethod = NoId],
    TxnBody("s1", NoId, <<Line("v1", 1)>>),
    TxnBody("s1", "oA", <<>>),
    TxnBody("s1", "oA", <<Line("v1", 0)>>),
    TxnBody("s1", "oA", <<Line("v1", 0 - 1)>>),
    TxnBody("s1", "oA", <<Line("v2", 1), Line("v1", 0 - 2)>>) }

\* A body with its type, tax, discount and amountPaid as given.
PricedBody(l, type, tax, discount, paid) ==
  [TxnBody("s1", "cA", l) EXCEPT !.type = type, !.tax = tax, !.discount = discount,
                                 !.amountPaid = paid]

\* Sales with and without line discounts, tax and discount; sales with an
\* amountPaid of zero, below and above the total; a return.
PricedBodies ==
  {PricedBody(l, NoId, x[1], x[2], Undef) :
     l \in {<<Line("v1", 2)>>, <<DiscountedLine("v1", 2, 3), Line("v2", 1)>>},
     x \in {<<Undef, Undef>>, <<Some(2), Some(1)>>}}
  \cup {PricedBody(<<Line("v1", 2)>>, NoId, Undef, Undef, paid) :
          paid \in {Some(0), Some(5), Some(50)}}
  \cup {PricedBody(<<DiscountedLine("v1", 2, 3), Line("v2", 1)>>, "RETURN",
                   Some(2), Undef, Some(50))}

\* adjustStock deltas within and beyond the stock, and none sent; one
\* without a reason.
AdjustRequests ==
  {Request("adjustStock", TokenOf("oA"), "v1", [adjustment |-> a, reason |-> "count"]) :
     a \in {Undef, Some(0 - 2), Some(0 - 5), Some(0 - 9)}}
  \cup {Request("adjustStock", TokenOf("oA"), "v1",
                [adjustment |-> Some(0 - 2), reason |-> NoId])}

\* Sales with two lines of variant v1 (stock 5): together within the stock,
\* each within it and together beyond it, the first beyond it.
RepeatedLineBodies ==
  {TxnBody("s1", "oA", <<Line("v1", x[1]), Line("v1", x[2])>>) :
     x \in {<<2, 2>>, <<3, 3>>, <<9, 1>>}}

\* The checkout and stock requests of tenant oA's owner.
CheckoutRequests ==
  {Request("createTransaction", TokenOf("oA"), NoId, b) :
     b \in MalformedBodies \cup PricedBodies \cup RepeatedLineBodies}
    \cup AdjustRequests

\* createEmployee bodies that ask for an OWNER, lack the e-mail, or carry an
\* e-mail in use, sent by the owner and the manager of tenant oA.
EmployeeRequests ==
  {Request("createEmployee", TokenOf(u), NoId,
           [email |-> x[1], role |-> x[2], storeId |-> "s1"]) :
     u \in {"oA", "mA"},
     x \in {<<"e", "OWNER">>, <<NoId, "OWNER">>, <<NoId, "MANAGER">>, <<"mA", "CASHIER">>}}

\* A request without an Authorization header.
NoToken == [TokenOf("oA") EXCEPT !.header = "none"]

\* Registrations with a new and a used e-mail, logins of seeded, created,
\* registered and unknown users, with and without the right password.
AccountRequests ==
  {Request("register", NoToken, NoId, [email |-> e, password |-> w]) :
     e \in {"n", "oA"}, w \in {"good", "weak"}}
  \cup {Request("register", NoToken, NoId, [email |-> NoId, password |-> "good"])}
  \cup {Request("login", NoToken, NoId, [email |-> e, password |-> "good"]) :
          e \in {"oA", "mA", "cA", "e", "n", "x"}}
  \cup {Request("login", NoToken, NoId, [email |-> "oA", password |-> w]) :
          w \in {"bad", NoId}}

TenantRequests ==
  UNION {RequestsOf(TokenOf(u)) : u \in Callers}
    \cup UNION {SampleRequests(t) : t \in BadTokens \cup {LegacyToken}}
    \cup CheckoutRequests
    \cup EmployeeRequests
    \cup AccountRequests

\* One sale of each tenant is on record.
SeedTransactions ==
  << TransactionRow(TxnBody("s1", "oA", <<Line("v1", 1)>>), "oA",
                    <<ItemRow(Line("v1", 1), 10)>>, 10, 1),
     TransactionRow(TxnBody("s2", "cB", <<Line("v3", 1)>>), "oB",
                    <<ItemRow(Line("v3", 1), 7)>>, 7, 2) >>

TenantInit ==
  /\ users = SeedUsers
  /\ stores = SeedStores
  /\ categories = SeedCategories
  /\ products = SeedProducts
  /\ variants = SeedVariants(5, 2)
  /\ stock0 = [v \in DOMAIN variants |-> variants[v].stockQuantity]
  /\ transactions = SeedTransactions
  /\ InitHandlers

\* The step handler s takes on request q.
HandlerStep(s, q) ==
  \/ Authenticate(s, q)
  \/ Authorize(s, q)
  \/ CtFields(s, q)
  \/ CtStore(s, q)
  \/ CtCashier(s, q)
  \/ CtItem(s, q)
  \/ CtCompute(s, q)
  \/ CtCreate(s, q)
  \/ CtUpdate(s, q)
  \/ CtCommit(s, q)
  \/ CtAbort(s, q)
  \/ AsRead(s, q)
  \/ AsWrite(s, q)
  \/ UvRead(s, q)
  \/ UvWrite(s, q)
  \/ CreateVariant(s, q)
  \/ DeleteVariant(s, q)
  \/ GetVariantById(s, q)
  \/ GetVariantBySku(s, q)
  \/ GetVariantByBarcode(s, q)
  \/ GetAllStores(s, q)
  \/ GetStoreById(s, q)
  \/ CreateStore(s, q)
  \/ UpdateStore(s, q)
  \/ DsRead(s, q)
  \/ DsWrite(s, q)
  \/ CreateCategory(s, q)
  \/ GetAllProducts(s, q)
  \/ GetProductById(s, q)
  \/ CreateProduct(s, q)
  \/ UpdateProduct(s, q)
  \/ DeleteProduct(s, q)
  \/ GetAllTransactions(s, q)
  \/ GetTransactionById(s, q)
  \/ GetTransactionStats(s, q)
  \/ GetTodayTransactions(s, q)
  \/ CreateEmployee(s, q)
  \/ UpdateEmployee(s, q)
  \/ DeleteEmployee(s, q)
  \/ Register(s, q)
  \/ Login(s, q)

TenantNext ==
  \E s \in {"h1"} :
    \/ Receive(s, TenantRequests)
    \/ Return(s)
    \/ Authenticate(s, rq[s])
    \/ Authorize(s, rq[s])
    \/ CtFields(s, rq[s])
    \/ CtStore(s, rq[s])
    \/ CtCashier(s, rq[s])
    \/ CtItem(s, rq[s])
    \/ CtCompute(s, rq[s])
    \/ CtCreate(s, rq[s])
    \/ CtUpdate(s, rq[s])
    \/ CtCommit(s, rq[s])
    \/ CtAbort(s, rq[s])
    \/ AsRead(s, rq[s])
    \/ AsWrite(s, rq[s])
    \/ UvRead(s, rq[s])
    \/ UvWrite(s, rq[s])
    \/ CreateVariant(s, rq[s])
    \/ DeleteVariant(s, rq[s])
    \/ GetVariantById(s, rq[s])
    \/ GetVariantBySku(s, rq[s])
    \/ GetVariantByBarcode(s, rq[s])
    \/ GetAllStores(s, rq[s])
    \/ GetStoreById(s, rq[s])
    \/ CreateStore(s, rq[s])
    \/ UpdateStore(s, rq[s])
    \/ DsRead(s, rq[s])
    \/ DsWrite(s, rq[s])
    \/ CreateCategory(s, rq[s])
    \/ GetAllProducts(s, rq[s])
    \/ GetProductById(s, rq[s])
    \/ CreateProduct(s, rq[s])
    \/ UpdateProduct(s, rq[s])
    \/ DeleteProduct(s, rq[s])
    \/ GetAllTransactions(s, rq[s])
    \/ GetTransactionById(s, rq[s])
    \/ GetTransactionStats(s, rq[s])
    \/ GetTodayTransactions(s, rq[s])
    \/ CreateEmployee(s, rq[s])
    \/ UpdateEmployee(s, rq[s])
    \/ DeleteEmployee(s, rq[s])
    \/ Register(s, rq[s])
    \/ Login(s, rq[s])

SpecTenant == TenantInit /\ [][TenantNext]_vars

(***************************************************************************)
(* The transaction engine with its scheduling: a handler that can take a   *)
(* step eventually takes one (the event loop runs every continuation whose *)
(* awaited query has resolved), and the database ends a transaction that   *)
(* waits in a deadlock or beyond its timeout, which is a step of the       *)
(* handler too (CtAbort).                                                  *)
(***************************************************************************)
\* A step of handler s in the transaction engine.
EngineStep(s) ==
  \/ Authenticate(s, rq[s])
  \/ Authorize(s, rq[s])
  \/ CtFields(s, rq[s])
  \/ CtStore(s, rq[s])
  \/ CtCashier(s, rq[s])
  \/ CtItem(s, rq[s])
  \/ CtCompute(s, rq[s])
  \/ CtCreate(s, rq[s])
  \/ CtUpdate(s, rq[s])
  \/ CtCommit(s, rq[s])
  \/ CtAbort(s, rq[s])
  \/ AsRead(s, rq[s])
  \/ AsWrite(s, rq[s])
  \/ UvRead(s, rq[s])
  \/ UvWrite(s, rq[s])
  \/ CreateVariant(s, rq[s])

SpecLive == Init /\ [][Next]_vars /\ \A s \in Slots : WF_vars(EngineStep(s))

(***************************************************************************)
(* Requests on the life of a store: tenant oA's owner, manager and cashier *)
(* delete stores and create an employee, a product and a sale in them, run *)
(* by two concurrent handlers.  Store s3 of tenant oA has no dependents.   *)
(***************************************************************************)
StoreRequests ==
  {Request("deleteStore", TokenOf(u), id, NoBody) : u \in {"oA", "mA"}, id \in {"s1", "s3"}}
  \cup {Request("createEmployee", TokenOf(u), NoId,
                [email |-> "e", role |-> "CASHIER", storeId |-> "s3"]) :
          u \in {"oA", "cA"}}
  \cup {Request("createProduct", TokenOf(u), NoId,
                [name |-> "n1", categoryId |-> "g1", storeId |-> st]) :
          u \in {"oA", "mA", "cA"}, st \in {"s1", "s3"}}
  \cup {Request("createTransaction", TokenOf("oA"), NoId,
                TxnBody("s3", "oA", <<Line("v1", 1)>>))}

StoreInit ==
  /\ users = SeedUsers
  /\ stores = Insert(SeedStores, "s3", [ownerId |-> "oA", name |-> "s3"])
  /\ categories = SeedCategories
  /\ products = SeedProducts
  /\ variants = SeedVariants(5, 2)
  /\ stock0 = [v \in DOMAIN variants |-> variants[v].stockQuantity]
  /\ transactions = <<>>
  /\ InitHandlers

StoreNext ==
  \E s \in Slots :
    \/ Receive(s, StoreRequests)
    \/ Return(s)
    \/ Authenticate(s, rq[s])
    \/ Authorize(s, rq[s])
    \/ DsRead(s, rq[s])
    \/ DsWrite(s, rq[s])
    \/ CreateEmployee(s, rq[s])
    \/ CreateProduct(s, rq[s])
    \/ CtFields(s, rq[s])
    \/ CtStore(s, rq[s])
    \/ CtCashier(s, rq[s])
    \/ CtItem(s, rq[s])
    \/ CtCompute(s, rq[s])
    \/ CtCreate(s, rq[s])
    \/ CtUpdate(s, rq[s])
    \/ CtCommit(s, rq[s])
    \/ CtAbort(s, rq[s])

SpecStore == StoreInit /\ [][StoreNext]_vars

(***************************************************************************)
(* Properties of the transaction engine, checked under Spec.               *)
(***************************************************************************)
IsSale(s) == rq[s].op = "createTransaction" /\ TypeOf(rq[s].body) = "SALE"

Committed(s) == pc[s] = "done" /\ res[s].status = 201

\* The quantity a one-line sale asks of variant v, 0 for any other request.
AsksOf(s, v) ==
  IF IsSale(s) /\ Len(rq[s].body.items) = 1 /\ rq[s].body.items[1].productVariantId = v
    THEN rq[s].body.items[1].quantity
    ELSE 0

\* The two handlers have each answered a one-line sale of v1, each quantity
\* within the stock v1 started with and the two together beyond it, and
\* neither was ended from outside.
ContendedSales ==
  /\ pc["h1"] = "done" /\ pc["h2"] = "done"
  /\ AsksOf("h1", "v1") > 0 /\ AsksOf("h2", "v1") > 0
  /\ AsksOf("h1", "v1") <= stock0["v1"] /\ AsksOf("h2", "v1") <= stock0["v1"]
  /\ AsksOf("h1", "v1") + AsksOf("h2", "v1") > stock0["v1"]
  /\ res["h1"].status # 500 /\ res["h2"].status # 500

\* C1: every ProductVariant's stockQuantity is >= 0 in every reachable state,
\* whatever createVariant, updateVariant, adjustStock and createTransaction
\* requests ran and however they interleaved.
C1_StockNeverNegative ==
  \A v \in DOMAIN variants : variants[v].stockQuantity >= 0

\* C2: of two sales of the same variant, each within the stock and together
\* beyond it, exactly one commits, the other is rejected for insufficient
\* stock, and the stock left is the initial stock minus the committed
\* quantity, never negative.
C2_ExactlyOneSaleCommits ==
  ContendedSales =>
    \E w \in Slots : \E l \in Slots \ {w} :
      /\ res[w].status = 201
      /\ res[l].status \in {400, 409} /\ res[l].error = "InsufficientStock"
      /\ variants["v1"].stockQuantity = stock0["v1"] - AsksOf(w, "v1")
      /\ variants["v1"].stockQuantity >= 0

\* Handler s takes a step inside the atomic unit that is not its commit.
InUnit(s) == pc[s] \in {"ct_create", "ct_update", "ct_commit"}

StepsUncommitted(s) ==
  /\ InUnit(s)
  /\ <<pc[s], loc[s], txw[s]>> # <<pc'[s], loc'[s], txw'[s]>>
  /\ ~(pc'[s] = "done" /\ res'[s].status = 201)

\* C3: a transaction whose commit fails at any step inside the atomic unit
\* leaves nothing behind: no Transaction row, no TransactionItem row and no
\* stock change on any referenced variant; only the commit itself writes.
C3_FailedCommitLeavesNothing ==
  [][\A s \in Slots : StepsUncommitted(s) => UNCHANGED <<transactions, variants>>]_vars

\* A transaction of two lines on v1 and v2 failed after the stock update of
\* its first line and before that of its second, and nothing of it is stored:
\* no row, and both variants' stock as at the start.
C3_Witness ==
  \E s \in Slots :
    /\ pc[s] = "done" /\ rq[s].op = "createTransaction"
    /\ rq[s].body.items = <<Line("v1", 1), Line("v2", 1)>>
    /\ res[s].status = 500 /\ res[s].error = "TransactionAborted"
    /\ txw[s].undone = {"v1"}
    /\ nreq = 1
    /\ transactions = <<>>
    /\ \A v \in DOMAIN stock0 : variants[v].stockQuantity = stock0[v]

(***************************************************************************)
(* Properties of the tenant-scoped API, checked under SpecTenant.          *)
(***************************************************************************)
\* Handler s has answered its request.
Answered(s) == pc[s] = "done"

\* Handler s serves a request whose credential was verified and names a tenant.
AuthenticatedAs(s, t) == t # NoId /\ ctx[s].ownerId = t

\* Handler s takes a step.
Steps(s) == <<pc[s], loc[s], txw[s]>> # <<pc'[s], loc'[s], txw'[s]>>

\* The request of handler s is still in validation: no step of the atomic
\* unit has run.
Validating(s) ==
  /\ rq[s].op = "createTransaction"
  /\ pc[s] \in {"authenticate", "ct_fields", "ct_store", "ct_cashier", "ct_item"}

\* C4: a createTransaction request rejected during validation (no tenant
\* context, missing fields, unknown or foreign store, cashier or variant,
\* insufficient stock at the pre-check) performs no write: every step it takes
\* up to and including its rejection leaves all tables as they were and opens
\* no database transaction.
C4_RejectedInValidationWritesNothing ==
  [][\A s \in Slots :
       (Validating(s) /\ Steps(s)) =>
         /\ UNCHANGED db
         /\ txw'[s] = NoTx
         /\ pc'[s] = "done" => res'[s].status \in {400, 401, 404}]_vars

\* A sale of more than the stock was rejected at the pre-check, and the
\* tables are as they were before it.
C4_Witness ==
  \E s \in Slots :
    /\ Answered(s) /\ rq[s].op = "createTransaction" /\ nreq = 1
    /\ rq[s].body.items = <<Line("v1", 9)>>
    /\ res[s].status = 400 /\ res[s].error = "InsufficientStock"
    /\ variants = SeedVariants(5, 2) /\ transactions = SeedTransactions
    /\ users = SeedUsers /\ stores = SeedStores /\ products = SeedProducts

ReadByIdOps == {"getStoreById", "getProductById", "getVariantById", "getVariantBySku",
                "getVariantByBarcode", "getTransactionById"}

ListOps == {"getAllStores", "getAllProducts", "getAllTransactions",
            "getTodayTransactions", "getTransactionStats"}

MutatingOps == {"updateStore", "deleteStore", "updateProduct", "deleteProduct",
                "updateVariant", "adjustStock", "deleteVariant", "updateEmployee",
                "deleteEmployee"}

\* The rows the request names by id, sku or barcode, each with its tenant.
Target(q) ==
  CASE q.op \in {"getStoreById", "updateStore", "deleteStore"}
         -> {StoreRec(x) : x \in {q.id} \cap DOMAIN stores}
    [] q.op \in {"getProductById", "updateProduct", "deleteProduct"}
         -> {ProductRec(x) : x \in {q.id} \cap DOMAIN products}
    [] q.op \in {"getVariantById", "updateVariant", "adjustStock", "deleteVariant"}
         -> {VariantRec(x) : x \in {q.id} \cap DOMAIN variants}
    [] q.op = "getVariantBySku"
         -> {VariantRec(x) : x \in {v \in DOMAIN variants : variants[v].sku = q.id}}
    [] q.op = "getVariantByBarcode"
         -> {VariantRec(x) : x \in {v \in DOMAIN variants : variants[v].barcode = q.id}}
    [] q.op = "getTransactionById"
         -> {TxnRec(x) : x \in {q.txId} \cap DOMAIN transactions}
    [] q.op \in {"updateEmployee", "deleteEmployee"}
         -> {UserRec(x) : x \in {q.id} \cap DOMAIN users}
    [] OTHER -> {}

\* The request of handler s names a row of another tenant than the caller's.
TargetsOtherTenant(s) == \E r \in Target(rq[s]) : r.ownerId # ctx[s].ownerId

\* Handler s has answered a read sent with a verified credential of a tenant.
AnsweredRead(s) ==
  /\ Answered(s) /\ ctx[s].ownerId # NoId
  /\ rq[s].op \in ReadByIdOps \cup ListOps

\* Every row in the response of s belongs to the caller's tenant.
OnlyOwnData(s) == \A d \in res[s].data : d.ownerId = ctx[s].ownerId

\* C5 as stated: a read authenticated as A returns only rows of A, and a read
\* by id of a row of B answers NotFound (404).
C5_ForeignReadsAnswerNotFound ==
  \A s \in Slots :
    AnsweredRead(s) =>
      /\ OnlyOwnData(s)
      /\ (rq[s].op \in ReadByIdOps /\ TargetsOtherTenant(s))
           => res[s] = Reply(404, {}, "NotFound")

\* The answer of the route to a caller of this role naming an id that does
\* not exist.
AbsentReply(s) ==
  IF ctx[s].user.role \in AllowedRoles(rq[s].op)
    THEN Reply(404, {}, "NotFound")
    ELSE Reply(403, {}, "Forbidden")

\* C5, amended: a read authenticated as A returns only rows of A, whatever
\* filter is sent, and a read by id of a row of B is answered exactly as a
\* read of an id that does not exist: NotFound (404) when the caller's role
\* passes the route's role gate, Forbidden (403) when it does not (a CASHIER
\* reading a transaction).
C5_ForeignReadsAnswerAsAbsent ==
  \A s \in Slots :
    AnsweredRead(s) =>
      /\ OnlyOwnData(s)
      /\ (rq[s].op \in ReadByIdOps /\ (TargetsOtherTenant(s) \/ Target(rq[s]) = {}))
           => res[s] = AbsentReply(s)

\* The owner of tenant oA read store s2 of tenant oB by id and was answered
\* NotFound.
C5_Witness ==
  \E s \in Slots :
    /\ Answered(s) /\ rq[s].op = "getStoreById" /\ rq[s].id = "s2"
    /\ ctx[s].ownerId = "oA"
    /\ Exists(stores, "s2") /\ stores["s2"].ownerId = "oB"
    /\ res[s] = Reply(404, {}, "NotFound")

\* The rows of the tenants other than t.
RowsOfOthers(t) ==
  [stores |-> [x \in {y \in DOMAIN stores : stores[y].ownerId # t} |-> stores[x]],
   categories |-> [x \in {y \in DOMAIN categories : categories[y].ownerId # t}
                     |-> categories[x]],
   products |-> [x \in {y \in DOMAIN products : products[y].ownerId # t} |-> products[x]],
   variants |-> [x \in {y \in DOMAIN variants : VariantRec(y).ownerId # t} |-> variants[x]],
   users |-> [x \in {y \in DOMAIN users : UserTenant(y) # t} |-> users[x]],
   transactions |-> [k \in {j \in DOMAIN transactions : transactions[j].ownerId # t}
                       |-> transactions[k]]]

\* No step of a mutating request authenticated as a tenant changes a row of
\* another tenant.
OthersUntouched ==
  \A s \in Slots : \A t \in UserIds :
    (AuthenticatedAs(s, t) /\ rq[s].op \in MutatingOps /\ Steps(s))
      => RowsOfOthers(t)' = RowsOfOthers(t)

\* Handler s has answered a mutating request, sent with a verified credential
\* of a tenant, that names a row of another tenant.
AnsweredForeignMutation(s) ==
  /\ Answered(s) /\ ctx[s].ownerId # NoId
  /\ rq[s].op \in MutatingOps
  /\ TargetsOtherTenant(s)

\* C6 as stated: a mutating operation authenticated as A that targets a row
\* of B is rejected with NotFound (404), never Forbidden (403), and leaves the
\* row unchanged.
C6_ForeignMutationsAnswerNotFound ==
  /\ [](\A s \in Slots : AnsweredForeignMutation(s) => res[s].status = 404)
  /\ [][OthersUntouched]_vars

\* adjustStock's body check, made before the variant is looked up.
NoAdjustment(q) ==
  q.op = "adjustStock" /\ (q.body.adjustment = Undef \/ q.body.adjustment[1] = 0)

\* C6, amended: a mutating operation authenticated as A that targets a row of
\* B leaves the row unchanged and is rejected: with Forbidden (403) when the
\* caller's role does not pass the route's role gate, with 400 when it is an
\* adjustStock without a non-zero adjustment, and with NotFound (404)
\* otherwise; in each case as for an id that does not exist.
C6_ForeignMutationsRejected ==
  /\ [](\A s \in Slots :
          AnsweredForeignMutation(s) =>
            res[s].status =
              IF ctx[s].user.role \notin AllowedRoles(rq[s].op) THEN 403
              ELSE IF NoAdjustment(rq[s]) THEN 400
              ELSE 404)
  /\ [][OthersUntouched]_vars

\* The owner of tenant oA asked to delete store s2 of tenant oB and was
\* answered NotFound; the store is as it was.
C6_Witness ==
  \E s \in Slots :
    /\ Answered(s) /\ rq[s].op = "deleteStore" /\ rq[s].id = "s2"
    /\ ctx[s].ownerId = "oA" /\ ctx[s].user.role = "OWNER"
    /\ res[s].status = 404
    /\ Exists(stores, "s2") /\ stores["s2"] = SeedStores["s2"]

\* The tenant ids a caller may send along with a request.
SentTenants == {NoId, "oA", "oB"}

\* Every row a step adds to Store, Category, Product or Transaction, and
\* every employee row it adds to User, carries the ownerId of the credential
\* of the request that step serves.
CreatedUnderCredential ==
  \A s \in Slots :
    Steps(s) =>
      LET o == rq[s].token.payload.ownerId IN
        /\ \A x \in DOMAIN stores' \ DOMAIN stores : stores'[x].ownerId = o
        /\ \A x \in DOMAIN categories' \ DOMAIN categories : categories'[x].ownerId = o
        /\ \A x \in DOMAIN products' \ DOMAIN products : products'[x].ownerId = o
        /\ \A x \in DOMAIN users' \ DOMAIN users :
             users'[x].role # "OWNER" => users'[x].ownerId = o
        /\ \A k \in DOMAIN transactions' \ DOMAIN transactions :
             transactions'[k].ownerId = o

\* The step a handler takes is the step it takes on the request that differs
\* only in the tenant id sent along: same tables, same response.
SentTenantIgnored ==
  \A s \in Slots : \A t \in SentTenants :
    HandlerStep(s, rq[s]) => HandlerStep(s, [rq[s] EXCEPT !.sentOwnerId = t])

\* C7: the tenant id an operation uses comes only from the verified
\* credential: every created Store, Category, Product, Transaction and
\* employee User stores the ownerId of the caller's credential, and a tenant
\* id placed in the body, query or path changes neither the stored state nor
\* the response.
C7_TenantOnlyFromCredential ==
  [][CreatedUnderCredential /\ SentTenantIgnored]_vars

\* The owner of tenant oA created a store while sending the tenant id oB
\* along; the store belongs to oA.
C7_Witness ==
  \E s \in Slots :
    /\ Answered(s) /\ rq[s].op = "createStore" /\ rq[s].sentOwnerId = "oB"
    /\ rq[s].token.payload.ownerId = "oA"
    /\ res[s].status = 201
    /\ \E d \in res[s].data :
         /\ d.kind = "store" /\ d.id \notin DOMAIN SeedStores
         /\ stores[d.id].ownerId = "oA"

\* The references the claim requires of a transaction of tenant t.
StoreValid(storeId, t) == storeId \in DOMAIN stores /\ stores[storeId].ownerId = t

CashierValid(cashierId, t) ==
  /\ cashierId \in DOMAIN users
  /\ \/ users[cashierId].ownerId = t
     \/ (cashierId = t /\ users[cashierId].role = "OWNER")

LineValid(item, t) ==
  /\ item.productVariantId \in DOMAIN variants
  /\ variants[item.productVariantId].productId \in DOMAIN products
  /\ products[variants[item.productVariantId].productId].ownerId = t

RefsValid(storeId, cashierId, items, t) ==
  /\ StoreValid(storeId, t)
  /\ CashierValid(cashierId, t)
  /\ \A i \in DOMAIN items : LineValid(items[i], t)

\* The transaction handler s has just committed satisfies the references.
CommittedValid(s) ==
  (Answered(s) /\ rq[s].op = "createTransaction" /\ res[s].status = 201) =>
    \E k \in DOMAIN transactions :
      /\ Rec("transaction", TxnId(k), ctx[s].ownerId) \in res[s].data
      /\ transactions[k].ownerId = ctx[s].ownerId
      /\ RefsValid(transactions[k].storeId, transactions[k].cashierId,
                   transactions[k].items, transactions[k].ownerId)

\* Handler s has answered a createTransaction request, complete in its
\* required fields and sent with a verified credential of a tenant, whose
\* store, cashier or one of whose variants fails the references.
AnsweredInvalidRefs(s) ==
  /\ Answered(s) /\ rq[s].op = "createTransaction" /\ ctx[s].ownerId # NoId
  /\ rq[s].body.storeId # NoId /\ rq[s].body.cashierId # NoId
  /\ ~RefsValid(rq[s].body.storeId, rq[s].body.cashierId, rq[s].body.items,
                ctx[s].ownerId)

EarlierLineShort(b, t) ==
  \E i \in DOMAIN b.items :
    /\ \A j \in 1..i : LineValid(b.items[j], t)
    /\ \E j \in (i + 1)..Len(b.items) : ~LineValid(b.items[j], t)
    /\ TypeOf(b) = "SALE"
    /\ variants[b.items[i].productVariantId].stockQuantity < b.items[i].quantity

CoreOps == {"createTransaction", "getAllTransactions", "getTransactionById",
            "getTransactionStats", "getTodayTransactions", "adjustStock", "createStore"}

Permitted(op) ==
  CASE op = "createTransaction" -> {"OWNER", "MANAGER", "CASHIER"}
    [] op = "createStore" -> {"OWNER"}
    [] OTHER -> {"OWNER", "MANAGER"}

\* The token of the request of s verifies.
Verifies(token) == token.header = "bearer" /\ token.sig = "good" /\ ~token.expired

\* C9: creating a transaction is permitted to OWNER, MANAGER and CASHIER;
\* listing or reading transactions and their stats, and adjusting stock, only
\* to OWNER and MANAGER; creating a store only to OWNER.  A request by a role
\* outside the allowed set is answered Forbidden (403), a request by a role
\* inside it is not, and no step of a request by a role outside changes a
\* table.
C9_RoleMatrix ==
  /\ [](\A s \in Slots :
          (Answered(s) /\ rq[s].op \in CoreOps /\ Verifies(rq[s].token)) =>
            (res[s].status = 403 <=> rq[s].token.payload.role \notin Permitted(rq[s].op)))
  /\ [][\A s \in Slots :
          (/\ rq[s].op \in CoreOps /\ Verifies(rq[s].token) /\ Steps(s)
           /\ rq[s].token.payload.role \notin Permitted(rq[s].op))
            => UNCHANGED db]_vars

\* The cashier of tenant oA asked to adjust the stock of v1 and was answered
\* Forbidden; the stock is as it was.
C9_Witness ==
  \E s \in Slots :
    /\ Answered(s) /\ rq[s].op = "adjustStock" /\ rq[s].id = "v1"
    /\ rq[s].body.adjustment = Some(2)
    /\ rq[s].token = TokenOf("cA")
    /\ res[s] = Reply(403, {}, "Forbidden")
    /\ nreq = 1 /\ variants = SeedVariants(5, 2)

\* C10: a request whose credential is absent, malformed, expired or fails
\* signature verification is answered Unauthenticated (401) by authenticate:
\* no tenant context is attached, no handler runs and no table changes.
C10_BadCredentialUnauthenticated ==
  [][\A s \in Slots :
       (pc[s] = "authenticate" /\ Steps(s) /\ ~Verifies(rq[s].token)) =>
         /\ pc'[s] = "done"
         /\ res'[s] = Reply(401, {}, "Unauthorized")
         /\ ctx'[s] = NoCtx
         /\ UNCHANGED db]_vars

\* A request to create a store, sent with an expired token of the owner of
\* tenant oA, was answered 401; no context was attached and no store created.
C10_Witness ==
  \E s \in Slots :
    /\ Answered(s) /\ rq[s].op = "createStore"
    /\ rq[s].token = [TokenOf("oA") EXCEPT !.expired = TRUE]
    /\ res[s].status = 401
    /\ ctx[s] = NoCtx
    /\ nreq = 1 /\ stores = SeedStores


(***************************************************************************)
(* Properties of checkout validation and stock adjustment, checked under   *)
(* SpecTenant.                                                             *)
(***************************************************************************)
\* The body lacks a required field, has no items, or has an item whose
\* quantity is not positive.
Malformed(b) ==
  \/ b.storeId = NoId \/ b.cashierId = NoId \/ b.paymentMethod = NoId
  \/ Len(b.items) = 0
  \/ \E i \in DOMAIN b.items : b.items[i].quantity <= 0

\* Handler s has answered a createTransaction request sent with a verified
\* credential of a tenant.
AnsweredCheckout(s) ==
  Answered(s) /\ rq[s].op = "createTransaction" /\ ctx[s].ownerId # NoId

\* Handler s takes the field validation step of createTransaction on a
\* malformed body.
ValidatesMalformed(s) ==
  /\ pc[s] = "ct_fields" /\ Steps(s)
  /\ ctx[s].ownerId # NoId /\ Malformed(rq[s].body)

\* C11: a createTransaction request with a missing storeId, cashierId, items
\* or paymentMethod, with an empty item list, or with an item of quantity
\* zero or less is rejected with 400 by the validation of its fields, before
\* any write; no committed transaction contains an item with quantity <= 0.
C11_MalformedSaleRejected ==
  /\ [][\A s \in Slots :
          ValidatesMalformed(s) =>
            pc'[s] = "done" /\ res'[s].status = 400 /\ UNCHANGED db]_vars
  /\ [](\A k \in DOMAIN transactions : \A i \in DOMAIN transactions[k].items :
          transactions[k].items[i].quantity > 0)

\* Handler s has answered the first request, a sale complete in its fields
\* and valid in its references and quantities, one of whose items asks for
\* more than the stock of its variant.
AnsweredShortSale(s) ==
  /\ AnsweredCheckout(s) /\ nreq = 1
  /\ ~Malformed(rq[s].body) /\ TypeOf(rq[s].body) = "SALE"
  /\ RefsValid(rq[s].body.storeId, rq[s].body.cashierId, rq[s].body.items,
               ctx[s].ownerId)
  /\ \E i \in DOMAIN rq[s].body.items :
       rq[s].body.items[i].quantity > stock0[rq[s].body.items[i].productVariantId]

\* C12: a sale whose quantity for some variant exceeds the variant's stock is
\* rejected with InsufficientStock, reported with status 409, and every
\* variant's stock is unchanged.
C12_ShortSaleAnswersConflict ==
  \A s \in Slots :
    AnsweredShortSale(s) =>
      /\ res[s].status = 409 /\ res[s].error = "InsufficientStock"
      /\ variants = SeedVariants(5, 2)

\* Handler s runs adjustStock with a delta on a variant of the caller's tenant.
Adjusting(s) ==
  /\ rq[s].op = "adjustStock" /\ pc[s] \in {"as_read", "as_write"}
  /\ ctx[s].ownerId # NoId /\ rq[s].body.adjustment # Undef
  /\ VariantOwned(variants, products, rq[s].id, ctx[s].ownerId)

\* The step of an adjustStock of delta D on stock S: it succeeds and leaves
\* S + D when accept holds, else it is rejected and leaves S.
AdjustStep(s, accept) ==
  LET id == rq[s].id
      S == variants[id].stockQuantity
      D == rq[s].body.adjustment[1]
  IN  IF pc[s] = "as_read"
        THEN /\ UNCHANGED variants
             /\ IF accept THEN pc'[s] = "as_write"
                ELSE pc'[s] = "done" /\ res'[s].status = 400
        ELSE /\ pc'[s] = "done" /\ res'[s].status = 200
             /\ variants' = SetStock(variants, id, S + D)
             /\ S + D >= 0

\* C13 as stated: adjustStock with signed delta D on stock S succeeds and
\* leaves S + D if and only if S + D >= 0; otherwise it is rejected and the
\* stock remains S.
C13_AdjustSucceedsIffNonNegative ==
  [][\A s \in Slots :
       (Adjusting(s) /\ Steps(s)) =>
         AdjustStep(s, variants[rq[s].id].stockQuantity + rq[s].body.adjustment[1] >= 0)]_vars

\* C13, amended: adjustStock with a non-zero signed delta D on stock S
\* succeeds and leaves S + D if and only if S + D >= 0; otherwise, and when
\* D is zero, it is rejected with 400 and the stock remains S.
C13_NonZeroAdjustSucceedsIffNonNegative ==
  [][\A s \in Slots :
       (Adjusting(s) /\ Steps(s)) =>
         AdjustStep(s, /\ rq[s].body.adjustment[1] # 0
                       /\ variants[rq[s].id].stockQuantity + rq[s].body.adjustment[1] >= 0)]_vars

\* An adjustment of -5 on the stock of 5 of v1 succeeded and left 0, the
\* other variants as they were.
C13_Witness ==
  \E s \in Slots :
    /\ Answered(s) /\ rq[s].op = "adjustStock" /\ nreq = 1
    /\ rq[s].id = "v1" /\ rq[s].body.adjustment = Some(0 - 5)
    /\ res[s].status = 200
    /\ variants = SetStock(SeedVariants(5, 2), "v1", 0)

(***************************************************************************)
(* Properties of stock changes under concurrency, checked under Spec.      *)
(***************************************************************************)
\* The signed quantity line i of body b asks of variant v: out of the stock
\* for a sale, into it for a return or refund.
SignedQuantity(b, i, v) ==
  IF b.items[i].productVariantId # v THEN 0
  ELSE IF TypeOf(b) = "SALE" THEN 0 - b.items[i].quantity
  ELSE b.items[i].quantity

RECURSIVE SignedUpTo(_, _, _)
SignedUpTo(b, v, n) ==
  IF n = 0 THEN 0 ELSE SignedUpTo(b, v, n - 1) + SignedQuantity(b, n, v)

\* The sum of the signed quantities the lines of body b ask of variant v.
SignedTotal(b, v) == SignedUpTo(b, v, Len(b.items))

\* The delta on variant v of the request handler s has answered with
\* success, 0 when it has answered none.
SucceededDelta(s, v) ==
  IF pc[s] # "done" THEN 0
  ELSE IF rq[s].op = "adjustStock" /\ res[s].status = 200 /\ rq[s].id = v
    THEN rq[s].body.adjustment[1]
  ELSE IF rq[s].op = "createTransaction" /\ res[s].status = 201
    THEN SignedTotal(rq[s].body, v)
  ELSE 0

\* Every request received so far has been answered, each by a handler that
\* still holds it, and each is one of ops.
AllAnswered(ops) ==
  /\ \A s \in Slots : pc[s] \in {"idle", "done"}
  /\ nreq = Cardinality({s \in Slots : pc[s] = "done"})
  /\ \A s \in Slots : pc[s] = "done" => rq[s].op \in ops

\* Each variant's stock is the stock it started with plus the deltas of the
\* requests that succeeded.
StockIsSumOfDeltas ==
  \A v \in DOMAIN stock0 :
    variants[v].stockQuantity =
      stock0[v] + SucceededDelta("h1", v) + SucceededDelta("h2", v)

\* C14: when adjustStock runs concurrently with another adjustStock or with
\* a transaction commit on the same variant, the final stock is the initial
\* stock plus the sum of the deltas of the operations that succeeded, and it
\* is not negative.
C14_AdjustmentsAreAtomicDeltas ==
  (/\ AllAnswered({"adjustStock", "createTransaction"})
   /\ \E s \in Slots : pc[s] = "done" /\ rq[s].op = "adjustStock") =>
    /\ StockIsSumOfDeltas
    /\ \A v \in DOMAIN variants : variants[v].stockQuantity >= 0

\* C15: every change of a variant's stockQuantity is made by adjustStock or
\* by a transaction commit, and a variant is created with a stock that is
\* not negative; no other operation stores a stockQuantity the caller sent.
C15_StockChangesOnlyByCheckedDelta ==
  [][\A s \in Slots :
       Steps(s) =>
         /\ \A v \in DOMAIN variants \cap DOMAIN variants' :
              variants'[v].stockQuantity # variants[v].stockQuantity =>
                rq[s].op \in {"adjustStock", "createTransaction"}
         /\ \A v \in DOMAIN variants' \ DOMAIN variants :
              variants'[v].stockQuantity >= 0]_vars

\* Handler s takes a step of createTransaction that commits.
Commits(s) == pc'[s] = "done" /\ res'[s].status = 201

\* C18: a committed SALE takes from the stock of each variant exactly the
\* quantities of its items and a committed RETURN or REFUND adds them, and no
\* other step of createTransaction changes a stock; when createTransaction
\* requests alone have run, in any interleaving, each variant's stock is its
\* initial stock minus the committed SALE quantities plus the committed
\* RETURN/REFUND quantities.
C18_CommitAppliesItemQuantities ==
  /\ [][\A s \in Slots :
          (Steps(s) /\ rq[s].op = "createTransaction") =>
            IF Commits(s)
              THEN \A v \in DOMAIN variants :
                     /\ v \in DOMAIN variants'
                     /\ variants'[v].stockQuantity =
                          variants[v].stockQuantity + SignedTotal(rq[s].body, v)
              ELSE UNCHANGED variants]_vars
  /\ [](AllAnswered({"createTransaction"}) => StockIsSumOfDeltas)

\* A sale of one v1 and one v2 and a return of three v1 and three v2 ran
\* concurrently and both committed: each stock is two above its start.
C18_Witness ==
  \E s \in Slots : \E o \in Slots \ {s} :
    /\ nreq = 2 /\ Committed(s) /\ Committed(o)
    /\ rq[s].op = "createTransaction" /\ rq[o].op = "createTransaction"
    /\ TypeOf(rq[s].body) = "SALE"
    /\ rq[s].body.items = <<Line("v1", 1), Line("v2", 1)>>
    /\ TypeOf(rq[o].body) = "RETURN"
    /\ rq[o].body.items = <<Line("v1", 3), Line("v2", 3)>>
    /\ \A v \in {"v1", "v2"} : variants[v].stockQuantity = stock0[v] + 2

(***************************************************************************)
(* Properties of the committed Transaction rows, checked under SpecTenant. *)
(***************************************************************************)
\* A number sent in the body, 0 when it was not sent.
Given(x) == IF x = Undef THEN 0 ELSE x[1]

RECURSIVE SubtotalUpTo(_, _)
SubtotalUpTo(items, n) ==
  IF n = 0 THEN 0 ELSE SubtotalUpTo(items, n - 1) + items[n].subtotal

\* The amounts of a Transaction row add up.
AmountsAddUp(row) ==
  /\ \A i \in DOMAIN row.items :
       row.items[i].subtotal =
         row.items[i].unitPrice * row.items[i].quantity - row.items[i].discount
  /\ row.subtotal = SubtotalUpTo(row.items, Len(row.items))
  /\ row.total = row.subtotal + row.tax - row.discount

\* The rows handler s has just committed: those its response carries.
RowsCommittedBy(s) ==
  {k \in DOMAIN transactions :
     /\ AnsweredCheckout(s) /\ res[s].status = 201
     /\ Rec("transaction", TxnId(k), ctx[s].ownerId) \in res[s].data}

\* The row stores the lines, tax and discount of the request, with 0 for
\* what was not sent, at the selling price of each variant.
AmountsAsSent(row, b) ==
  /\ row.tax = Given(b.tax) /\ row.discount = Given(b.discount)
  /\ Len(row.items) = Len(b.items)
  /\ \A i \in DOMAIN b.items :
       /\ row.items[i].productVariantId = b.items[i].productVariantId
       /\ row.items[i].quantity = b.items[i].quantity
       /\ row.items[i].discount = Given(b.items[i].discount)
       /\ row.items[i].unitPrice = variants[b.items[i].productVariantId].sellingPrice

\* C16: for every committed transaction each item's subtotal is unitPrice x
\* quantity - item discount, the subtotal is the sum of the items' subtotals
\* and the total is subtotal + tax - discount, with tax and discount taken as
\* 0 when not supplied.
C16_AmountsAddUp ==
  /\ \A k \in DOMAIN transactions : AmountsAddUp(transactions[k])
  /\ \A s \in Slots : \A k \in RowsCommittedBy(s) :
       AmountsAsSent(transactions[k], rq[s].body)

\* A sale of two v1 at 10 with a line discount of 3 and one v2 at 4, with
\* tax 2 and discount 1, is committed: subtotal 21, total 22.
C16_Witness ==
  \E s \in Slots : \E k \in RowsCommittedBy(s) :
    /\ rq[s].body.items = <<DiscountedLine("v1", 2, 3), Line("v2", 1)>>
    /\ rq[s].body.tax = Some(2) /\ rq[s].body.discount = Some(1)
    /\ transactions[k].items[1].subtotal = 17
    /\ transactions[k].subtotal = 21 /\ transactions[k].total = 22

\* C17: for every committed transaction the stored amountPaid is the
\* amountPaid the caller supplied, a supplied 0 included, or the total when
\* none was supplied, and the stored change is max(0, amountPaid - total).
C17_AmountPaidAsSupplied ==
  \A s \in Slots : \A k \in RowsCommittedBy(s) :
    LET row == transactions[k]
        paid == rq[s].body.amountPaid
    IN  /\ row.amountPaid = IF paid = Undef THEN row.total ELSE paid[1]
        /\ row.change = IF row.amountPaid - row.total > 0
                           THEN row.amountPaid - row.total ELSE 0

\* C19: once a Transaction and its TransactionItems are committed, no later
\* step of any operation updates or deletes them: every row present before a
\* step is present after it with the same fields and the same items; a
\* correction is a new row.
C19_CommittedRowsNeverChange ==
  [][\A k \in DOMAIN transactions :
       k \in DOMAIN transactions' /\ transactions'[k] = transactions[k]]_vars

\* After a sale of v1 was committed as the third row, the owner asked to
\* delete v1 and was refused; the three rows are on record, the first two as
\* at the start.
C19_Witness ==
  \E s \in Slots :
    /\ Answered(s) /\ rq[s].op = "deleteVariant" /\ rq[s].id = "v1" /\ nreq = 2
    /\ ctx[s].ownerId = "oA" /\ res[s].status = 400
    /\ Len(transactions) = 3 /\ SubSeq(transactions, 1, 2) = SeedTransactions
    /\ transactions[3].items[1].productVariantId = "v1"
    /\ Exists(variants, "v1")

\* Handler s takes the create step of createTransaction with a generated
\* number that a committed transaction already has.
CreatesWithTakenNumber(s) ==
  /\ pc[s] = "ct_create" /\ Steps(s)
  /\ \E k \in DOMAIN transactions : transactions[k].transactionNo = loc[s].txNo

\* C20: transactionNo is unique among the committed transactions, and an
\* attempt whose generated number is that of an existing transaction is
\* rejected with 409 and persists no transaction, item or stock change.
C20_DuplicateNumberAnswersConflict ==
  /\ [](\A j \in DOMAIN transactions : \A k \in DOMAIN transactions :
          j # k => transactions[j].transactionNo # transactions[k].transactionNo)
  /\ [][\A s \in Slots :
          CreatesWithTakenNumber(s) =>
            /\ pc'[s] = "done" /\ res'[s].status = 409
            /\ UNCHANGED db /\ txw'[s] = NoTx]_vars

(***************************************************************************)
(* Properties of employees, accounts and credentials, checked under        *)
(* SpecTenant.                                                             *)
(***************************************************************************)
\* The role rule of createEmployee: the caller is an OWNER or a MANAGER, a
\* MANAGER asks for a CASHIER, nobody asks for an OWNER.
RoleRuleKept(callerRole, role) ==
  /\ callerRole \in {"OWNER", "MANAGER"}
  /\ callerRole = "MANAGER" => role = "CASHIER"
  /\ role # "OWNER"

\* The body carries the required fields.
CompleteEmployee(b) == b.email # NoId /\ b.role # NoId /\ b.storeId # NoId

\* Handler s takes a step on a createEmployee request of an authenticated
\* caller.
ServesCreateEmployee(s) ==
  /\ rq[s].op = "createEmployee" /\ ctx[s].user # NoPayload /\ Steps(s)

\* A step of createEmployee adds a user only under the role rule, and the
\* user added has the role asked for.
CreatesUnderRoleRule(s) ==
  users' # users =>
    /\ RoleRuleKept(ctx[s].user.role, rq[s].body.role)
    /\ \A u \in DOMAIN users' \ DOMAIN users : users'[u].role = rq[s].body.role
    /\ \A u \in DOMAIN users : u \in DOMAIN users' /\ users'[u] = users[u]

\* C21 as stated: createEmployee creates a user only when the caller is an
\* OWNER or a MANAGER, a MANAGER creates only a CASHIER and nobody creates
\* an OWNER; every request that breaks this rule is answered 403 and creates
\* no user.
C21_RoleRuleBreachForbidden ==
  [][\A s \in Slots :
       ServesCreateEmployee(s) =>
         /\ CreatesUnderRoleRule(s)
         /\ (pc'[s] = "done" /\ ~RoleRuleKept(ctx[s].user.role, rq[s].body.role)) =>
              (res'[s].status = 403 /\ users' = users)]_vars

\* C21: createEmployee creates a user only when the caller is an OWNER or a
\* MANAGER, a MANAGER creates only a CASHIER and nobody creates an OWNER; a
\* request that breaks this rule creates no user and is answered 403, or 400
\* when an OWNER or a MANAGER sends it without a required field.
C21_RoleRuleBreachRejected ==
  [][\A s \in Slots :
       ServesCreateEmployee(s) =>
         /\ CreatesUnderRoleRule(s)
         /\ (pc'[s] = "done" /\ ~RoleRuleKept(ctx[s].user.role, rq[s].body.role)) =>
              /\ users' = users
              /\ res'[s].status =
                   IF /\ ctx[s].user.role \in {"OWNER", "MANAGER"}
                      /\ ~CompleteEmployee(rq[s].body)
                     THEN 400 ELSE 403]_vars

\* The manager of tenant oA asked for a MANAGER with every required field and
\* was answered 403; the owner created a MANAGER.
C21_Witness ==
  \E s \in Slots :
    /\ Answered(s) /\ rq[s].op = "createEmployee"
    /\ ctx[s].user.role = "MANAGER" /\ rq[s].body.role = "MANAGER"
    /\ CompleteEmployee(rq[s].body)
    /\ res[s].status = 403
    /\ \E u \in DOMAIN users \ DOMAIN SeedUsers :
         users[u].role = "MANAGER" /\ users[u].ownerId = "oA"

(***************************************************************************)
(* Properties of the life of a store, checked under SpecStore.             *)
(***************************************************************************)
\* An employee, a product or a transaction refers to store id.
Referenced(id) ==
  \/ \E u \in DOMAIN users : users[u].storeId = id
  \/ \E p \in DOMAIN products : products[p].storeId = id
  \/ \E k \in DOMAIN transactions : transactions[k].storeId = id

\* Every store referred to exists.
NoDanglingStore ==
  /\ \A u \in DOMAIN users : users[u].storeId # NoId => Exists(stores, users[u].storeId)
  /\ \A p \in DOMAIN products : Exists(stores, products[p].storeId)
  /\ \A k \in DOMAIN transactions : Exists(stores, transactions[k].storeId)

\* C22: a store is never deleted while an employee, a product or a
\* transaction refers to it: a deleteStore answered while one does is
\* rejected and the store remains (also when the dependent is created while
\* the delete is under way), and in every state every store that an
\* employee, a product or a transaction refers to exists.
C22_ReferencedStoreNeverDeleted ==
  /\ []NoDanglingStore
  /\ [][/\ \A id \in DOMAIN stores : Referenced(id) => id \in DOMAIN stores'
        /\ \A s \in Slots :
             (/\ rq[s].op = "deleteStore" /\ pc[s] # "done" /\ pc'[s] = "done"
              /\ Referenced(rq[s].id))
               => res'[s].status >= 400]_vars

\* Routes whose handler never answers 403 itself: a 403 is the gate's.
GateOps == {"deleteStore", "createProduct"}

\* The request of handler s is past the gate, let through or denied.
PastGate(s) ==
  /\ pc[s] \notin {"idle", "authenticate", "authorize"}
  /\ ctx[s].user # NoPayload /\ rq[s].op \in GateOps

GateDenied(s) == pc[s] = "done" /\ res[s].status = 403

\* C23: the authorization check is pure: two requests of the same role to
\* the same operation get the same decision, whatever the tables hold,
\* whatever was requested before and whatever else the requests carry.
C23_SameRoleSameDecision ==
  \A s, o \in Slots :
    (/\ PastGate(s) /\ PastGate(o)
     /\ rq[s].op = rq[o].op /\ ctx[s].user.role = ctx[o].user.role)
      => (GateDenied(s) <=> GateDenied(o))

\* Two managers' requests to create a product, one for store s1 and one for
\* store s3, have both been let through and answered 201.
C23_Witness ==
  \E s, o \in Slots :
    /\ Answered(s) /\ Answered(o)
    /\ rq[s].op = "createProduct" /\ rq[o].op = "createProduct"
    /\ ctx[s].user.role = "MANAGER" /\ ctx[o].user.role = "MANAGER"
    /\ rq[s].body.storeId = "s1" /\ rq[o].body.storeId = "s3"
    /\ res[s].status = 201 /\ res[o].status = 201

(***************************************************************************)
(* Progress of createTransaction, checked under SpecLive.                  *)
(***************************************************************************)
\* The state of the transaction engine a position belongs to: 1 Validating
\* (the authorization gate and the validation), 2 Computing, 3 Committing.
Phase(p) ==
  CASE p \in {"authenticate", "authorize", "ct_fields", "ct_store", "ct_cashier",
              "ct_item"} -> 1
    [] p = "ct_compute" -> 2
    [] p \in {"ct_create", "ct_update", "ct_commit"} -> 3
    [] OTHER -> 0

\* A step of a createTransaction stays in its state or enters the next one,
\* commits only out of Committing, and after the answer only returns.
InPhaseOrder(s) ==
  (rq[s].op = "createTransaction" /\ Steps(s)) =>
    /\ Phase(pc'[s]) > 0 => Phase(pc'[s]) \in {Phase(pc[s]), Phase(pc[s]) + 1}
    /\ (pc'[s] = "done" /\ res'[s].status = 201) => Phase(pc[s]) = 3
    /\ pc[s] = "done" => pc'[s] = "idle"

\* An answered createTransaction is Committed (201) or Rejected (an error
\* status), and holds no open database transaction.
Terminal(s) ==
  (rq[s].op = "createTransaction" /\ pc[s] = "done") =>
    /\ res[s].status = 201 \/ res[s].status >= 400
    /\ ~txw[s].open /\ txw[s].locked = {}

\* C24: every createTransaction goes through Validating, Computing and
\* Committing in this order and ends in exactly one of Committed and
\* Rejected; with concurrent requests on the same variants, in any order of
\* their items, every request is eventually answered.
C24_CheckoutTerminates ==
  /\ [][\A s \in Slots : InPhaseOrder(s)]_vars
  /\ [](\A s \in Slots : Terminal(s))
  /\ \A s \in Slots :
       (rq[s].op = "createTransaction" /\ pc[s] # "idle") ~> (pc[s] = "done")

\* Two sales of v1 and v2 in opposite orders each hold the lock of their
\* first variant and wait for the other's.
C24_Witness ==
  /\ pc["h1"] = "ct_update" /\ pc["h2"] = "ct_update"
  /\ \E s \in Slots : \E o \in Slots \ {s} :
       /\ txw[s].locked = {"v1"} /\ rq[s].body.items[loc[s].i].productVariantId = "v2"
       /\ txw[o].locked = {"v2"} /\ rq[o].body.items[loc[o].i].productVariantId = "v1"

(***************************************************************************)
(* Properties of the gate, the credentials and the stock rules, checked    *)
(* under SpecTenant.                                                       *)
(***************************************************************************)
\* The route of op is restricted to some roles.
RoleRestricted(op) == AllowedRoles(op) # Roles

\* The positions of the handlers, where the data is read and written.
InHandler(p) == p \notin {"idle", "authenticate", "authorize", "done"}

\* A step of a request to a role-restricted route: authorize is entered from
\* authenticate and the handler from authorize with an allowed role; nothing
\* is written before the handler; a failed authentication is answered 401
\* and a failed role check 403, from where the request only returns.
GateBeforeData(s) ==
  (RoleRestricted(rq[s].op) /\ Steps(s)) =>
    /\ pc'[s] = "authorize" => pc[s] = "authenticate"
    /\ (InHandler(pc'[s]) /\ ~InHandler(pc[s])) =>
         (pc[s] = "authorize" /\ ctx[s].user.role \in AllowedRoles(rq[s].op))
    /\ ~InHandler(pc[s]) => UNCHANGED db
    /\ (pc[s] = "authenticate" /\ pc'[s] = "done") => res'[s].status = 401
    /\ (pc[s] = "authorize" /\ ctx[s].user # NoPayload
          /\ ctx[s].user.role \notin AllowedRoles(rq[s].op)) =>
         (pc'[s] = "done" /\ res'[s].status = 403)

\* C25: a request to a role-restricted operation is authenticated first,
\* then authorized, and only then reaches the data; a request that fails the
\* role check is answered 403, not 401, and no handler step runs for it, so
\* that nothing is read from or written to the database.
C25_GateBeforeData ==
  [][\A s \in Slots : GateBeforeData(s)]_vars

\* The cashier of tenant oA asked to delete product p1 and was answered 403;
\* the product is as it was.
C25_Witness ==
  \E s \in Slots :
    /\ Answered(s) /\ rq[s].op = "deleteProduct" /\ rq[s].id = "p1"
    /\ ctx[s].user.role = "CASHIER"
    /\ res[s].status = 403
    /\ Exists(products, "p1") /\ products["p1"] = SeedProducts["p1"]

\* The tokens in the answer of handler s.
IssuedBy(s) == {d \in res[s].data : d.kind = "token"}

\* C26: every credential issued by register or login carries the user's own
\* id as ownerId when the user is an OWNER, and for a MANAGER or CASHIER the
\* ownerId stored in the user's row, which is not the employee's own id.
C26_IssuedTenant ==
  \A s \in Slots :
    (Answered(s) /\ rq[s].op \in PublicOps) =>
      \A d \in IssuedBy(s) :
        /\ Exists(users, d.id) /\ d.role = users[d.id].role
        /\ d.role = "OWNER" => d.ownerId = d.id
        /\ d.role \in {"MANAGER", "CASHIER"} =>
             (d.ownerId = users[d.id].ownerId /\ d.ownerId # d.id)

\* An employee created by tenant oA's owner or manager has logged in and was
\* issued a token of tenant oA.
C26_Witness ==
  \E s \in Slots :
    /\ Answered(s) /\ rq[s].op = "login" /\ res[s].status = 200
    /\ \E d \in IssuedBy(s) :
         /\ d.id \notin DOMAIN SeedUsers
         /\ d.role \in {"MANAGER", "CASHIER"}
         /\ d.ownerId = "oA"

\* C27: after any sequence of register, createEmployee, updateEmployee and
\* deleteEmployee every OWNER has a null ownerId and every MANAGER and
\* CASHIER has the ownerId of an existing OWNER.
C27_OwnerLinks ==
  \A u \in DOMAIN users :
    /\ users[u].role = "OWNER" => users[u].ownerId = NoId
    /\ users[u].role \in {"MANAGER", "CASHIER"} =>
         /\ users[u].ownerId # NoId
         /\ Exists(users, users[u].ownerId)
         /\ users[users[u].ownerId].role = "OWNER"

\* An owner has registered and tenant oA has a new manager.
C27_Witness ==
  \E u, e \in DOMAIN users \ DOMAIN SeedUsers :
    /\ users[u].role = "OWNER" /\ users[u].email = "n"
    /\ users[e].role = "MANAGER" /\ users[e].ownerId = "oA"

\* Body b has more than one line of variant v.
RepeatsVariant(b, v) ==
  Cardinality({i \in DOMAIN b.items : b.items[i].productVariantId = v}) > 1

\* C28: a SALE with more than one line of the same variant commits only if
\* the variant's stock is at least the sum of the quantities of those lines;
\* otherwise the sale is rejected and the stock is as it was.
C28_RepeatedLinesWithinStock ==
  [][\A s \in Slots :
       (IsSale(s) /\ ~Malformed(rq[s].body) /\ pc[s] # "done" /\ pc'[s] = "done") =>
         \A v \in DOMAIN variants :
           (/\ RepeatsVariant(rq[s].body, v)
            /\ variants[v].stockQuantity < 0 - SignedTotal(rq[s].body, v)) =>
             /\ res'[s].status >= 400
             /\ variants'[v].stockQuantity = variants[v].stockQuantity]_vars

\* C29: every manual stock adjustment that succeeds was sent with a reason,
\* which is recorded with it; a rejected adjustment records nothing.
C29_AdjustmentCarriesReason ==
  \A s \in Slots :
    (Answered(s) /\ rq[s].op = "adjustStock" /\ res[s].status = 200) =>
      rq[s].body.reason # NoId

\* The user of the credential is gone or has been deactivated.
Revoked(u) == ~Exists(users, u) \/ ~users[u].isActive

\* C30: once an employee is deleted or deactivated, a request that bears a
\* credential issued to them before is rejected: it creates no transaction
\* and adjusts no stock.
C30_RevokedCredentialRejected ==
  [][\A s \in Slots :
       (/\ rq[s].op \in {"createTransaction", "adjustStock"}
        /\ ctx[s].user # NoPayload /\ Revoked(ctx[s].user.userId)
        /\ pc[s] # "done" /\ pc'[s] = "done") =>
         /\ res'[s].status >= 400
         /\ transactions' = transactions /\ variants' = variants]_vars

=============================================================================
